---- MODULE Spec2Model ----
(***************************************************************************)
(* Copy-trade executor: CopierService (src/services/copier_service.py)     *)
(* driving MT5Service (src/services/mt5_service.py) on the slave terminal  *)
(* and PositionTracker (src/services/position_tracker.py).                 *)
(*                                                                         *)
(* Volumes are Python floats.  A volume that a terminal reports or an      *)
(* event carries is a decimal with two places, written as its count n of   *)
(* hundredths of a lot, which stands for the double nearest to n/100.  The *)
(* volumes the copier computes, volume_to_close and the slave_volume of a  *)
(* mapping, are emulated IEEE-754 doubles (Dbl, FSub, FDiv, Floor, FMinus, *)
(* FGeq), because their subtraction, floor and comparison depend on binary *)
(* rounding.  Prices (sl, tp) are only copied and compared, and are small  *)
(* integers.                                                                *)
(***************************************************************************)
EXTENDS Integers, Sequences, FiniteSets, TLC

----------------------------------------------------------------------------
(* Bounds of the model *)

MaxTicket == 1
MaxVolume == 3
MaxPrice == 1
MaxOrders == 1

----------------------------------------------------------------------------
(* IEEE-754 binary64 arithmetic, round-half-to-even.  A 53-bit significand *)
(* is held in two limbs [hi, lo] of value hi * 2^27 + lo; a double is      *)
(* [neg, m, e] of value (-1)^neg * m * 2^e with 2^52 <= m < 2^53, or Zero. *)

Limb == 2^27

BigGeq(a, b) == a.hi > b.hi \/ (a.hi = b.hi /\ a.lo >= b.lo)

BigSub(a, b) ==
    IF a.lo >= b.lo THEN [hi |-> a.hi - b.hi, lo |-> a.lo - b.lo]
    ELSE [hi |-> a.hi - b.hi - 1, lo |-> a.lo + Limb - b.lo]

BigTwice(a) == [hi |-> 2 * a.hi + (2 * a.lo) \div Limb, lo |-> (2 * a.lo) % Limb]

BigInc(a) ==
    IF a.lo + 1 = Limb THEN [hi |-> a.hi + 1, lo |-> 0]
    ELSE [hi |-> a.hi, lo |-> a.lo + 1]

BigShr(a, k) ==
    [hi |-> a.hi \div 2^k, lo |-> (a.hi % 2^k) * 2^(27 - k) + a.lo \div 2^k]

\* a with its lowest bit set if lost (sticky)
BigSticky(a, lost) ==
    IF lost /\ a.lo % 2 = 0 THEN [hi |-> a.hi, lo |-> a.lo + 1] ELSE a

\* right shift by k >= 0 of a value below 2^56 that keeps a lost 1 in the
\* lowest bit (sticky)
BigShrSticky(a, k) ==
    IF k < 27 THEN BigSticky(BigShr(a, k), a.lo % 2^k # 0)
    ELSE IF k < 56
    THEN LET t == a.hi \div 2^(k - 27)
         IN  BigSticky([hi |-> t \div Limb, lo |-> t % Limb],
                       a.lo # 0 \/ a.hi % 2^(k - 27) # 0)
    ELSE BigSticky([hi |-> 0, lo |-> 0], a.hi # 0 \/ a.lo # 0)

BigIsZero(a) == a.hi = 0 /\ a.lo = 0

\* the number of bits of 0 <= n < 2^30
BitLen(n) == Cardinality({k \in 0..29 : 2^k <= n})

\* round a significand with `drop` extra low bits (2..3) to 53 bits;
\* sticky says that bits below the extra ones were lost
RoundSig(q, drop, sticky, e) ==
    LET low  == q.lo % 2^drop
        half == 2^(drop - 1)
        m    == BigShr(q, drop)
        up   == low > half \/ (low = half /\ (sticky \/ m.lo % 2 = 1))
        m1   == IF up THEN BigInc(m) ELSE m
    IN  IF m1.hi = 2^26
        THEN [neg |-> FALSE, m |-> [hi |-> 2^25, lo |-> 0], e |-> e + drop + 1]
        ELSE [neg |-> FALSE, m |-> m1, e |-> e + drop]

\* an integer 1 <= n < 2^26 as a double (exact)
FromInt(n) ==
    LET b == BitLen(n)
    IN  [neg |-> FALSE, m |-> [hi |-> n * 2^(26 - b), lo |-> 0], e |-> b - 53]

\* long division by d: s.q is the quotient so far, s.r < d the remainder and
\* s.i the number of quotient bits produced; it ends at a 55-bit quotient
Done(s) == s.q.hi >= 2^27

\* one step: the next quotient bit
DivStep(s, d) ==
    IF Done(s) THEN s
    ELSE LET r2  == BigTwice(s.r)
             bit == BigGeq(r2, d)
             q2  == BigTwice(s.q)
         IN  [r |-> IF bit THEN BigSub(r2, d) ELSE r2,
              q |-> IF bit THEN BigInc(q2) ELSE q2,
              i |-> s.i + 1]

\* 3 and 9 steps
DivStep3(s, d) == DivStep(DivStep(DivStep(s, d), d), d)

DivStep9(s, d) == DivStep3(DivStep3(DivStep3(s, d), d), d)

\* the whole division, in runs of 9 steps
RECURSIVE DivLoop(_, _)
DivLoop(s, d) == IF Done(s) THEN s ELSE DivLoop(DivStep9(s, d), d)

\* the quotient qr.q * 2^(e - qr.i) rounded to 53 bits
RoundQuot(qr, e) == RoundSig(qr.q, 2, ~BigIsZero(qr.r), e - qr.i)

\* x / y, correctly rounded
FDiv(x, y) ==
    RoundQuot(IF BigGeq(x.m, y.m)
              THEN DivLoop([r |-> BigSub(x.m, y.m), q |-> [hi |-> 0, lo |-> 1], i |-> 0], y.m)
              ELSE DivLoop([r |-> x.m, q |-> [hi |-> 0, lo |-> 0], i |-> 0], y.m),
              x.e - y.e)

\* left shift by 0 <= k <= 27
BigShl(a, k) ==
    [hi |-> a.hi * 2^k + a.lo \div 2^(27 - k), lo |-> (a.lo % 2^(27 - k)) * 2^k]

\* shift a nonzero value below 2^56 left until its top bit (2^55) is set
NormLeft(n) ==
    IF n.m.hi = 0
    THEN LET k == 28 - BitLen(n.m.lo)
         IN  [m |-> [hi |-> n.m.lo * 2^(k + 1), lo |-> 0], e |-> n.e - 28 - k]
    ELSE LET k == 29 - BitLen(n.m.hi)
         IN  IF k = 28 THEN [m |-> BigTwice(BigShl(n.m, 27)), e |-> n.e - 28]
             ELSE [m |-> BigShl(n.m, k), e |-> n.e - k]

\* x - y for doubles x > y > 0, correctly rounded (guard, round, sticky bits)
FSub(x, y) ==
    LET a == BigTwice(BigTwice(BigTwice(x.m)))
        b == BigShrSticky(BigTwice(BigTwice(BigTwice(y.m))), x.e - y.e)
        n == NormLeft([m |-> BigSub(a, b), e |-> x.e - 3])
    IN  RoundSig(n.m, 3, FALSE, n.e)

\* math.floor of a double 0 < x < 2^26
Floor(x) ==
    IF x.e <= -53 THEN 0 ELSE x.m.hi \div 2^(-27 - x.e)

\* the double that a decimal volume / step of n hundredths denotes
Dbl(n) == FDiv(FromInt(n), FromInt(100))

Zero == [neg |-> FALSE, m |-> [hi |-> 0, lo |-> 0], e |-> 0]

FIsZero(x) == BigIsZero(x.m)

\* |x| >= |y|
MagGeq(x, y) ==
    \/ FIsZero(y)
    \/ ~FIsZero(x) /\ (x.e > y.e \/ (x.e = y.e /\ BigGeq(x.m, y.m)))

\* x >= y
FGeq(x, y) ==
    IF x.neg = y.neg THEN (IF x.neg THEN MagGeq(y, x) ELSE MagGeq(x, y))
    ELSE y.neg \/ (FIsZero(x) /\ FIsZero(y))

\* x - y for doubles x > 0 and y > 0, correctly rounded
FMinus(x, y) ==
    IF x = y THEN Zero
    ELSE IF MagGeq(x, y) THEN FSub(x, y)
    ELSE [FSub(y, x) EXCEPT !.neg = TRUE]

\* math.floor((prev_volume - volume) / step) on doubles
FloorQuot(prev_volume, volume, step) ==
    Floor(FDiv(FMinus(Dbl(prev_volume), Dbl(volume)), Dbl(step)))

\* the doubles of the decimal volumes 0.00, 0.01, .. of the model
DblOf == [n \in 0..MaxVolume |-> IF n = 0 THEN Zero ELSE Dbl(n)]

Vol(n) == DblOf[n]

\* the doubles of 0.005, 0.015, ..: the bounds between the hundredths
HalfOf == [k \in 0..MaxVolume |-> FDiv(FromInt(2 * k + 1), FromInt(200))]

\* the decimal volume, in hundredths, nearest to a double x >= 0
Lots(x) == Cardinality({k \in 0..MaxVolume : FGeq(x, HalfOf[k])})

----------------------------------------------------------------------------
(* Data: models/trade_models.py *)

Tickets == 1..MaxTicket
Volumes == 1..MaxVolume
Prices == 0..MaxPrice
None == -1

\* a position keeps its symbol, direction and open price for life
TicketSymbol(t) == IF t % 2 = 1 THEN "EURUSD" ELSE "XAUUSD"
TicketType(t) == IF t % 2 = 1 THEN 0 ELSE 1
TicketPriceOpen(t) == 10 + t

direction(type) == IF type = 0 THEN "BUY" ELSE "SELL"

TradePosition(t) ==
    [ticket : {t}, symbol : {TicketSymbol(t)}, type : {TicketType(t)},
     volume : Volumes, price_open : {TicketPriceOpen(t)}, sl : Prices, tp : Prices]

NoPosition ==
    [ticket |-> 0, symbol |-> "", type |-> 0, volume |-> 0, price_open |-> 0,
     sl |-> 0, tp |-> 0]

TradeEvent(type, t, pos, prev) ==
    [event_type |-> type, master_ticket |-> t, position |-> pos,
     previous_position |-> prev]

NoEvent == TradeEvent("", 0, NoPosition, NoPosition)

PositionMapping(master_ticket, slave_ticket, symbol, dir, master_volume, slave_volume, master_open_price, slave_open_price, master_sl, master_tp, slave_sl, slave_tp, opened_at) ==
    [master_ticket |-> master_ticket, slave_ticket |-> slave_ticket,
     symbol |-> symbol, direction |-> dir,
     master_volume |-> master_volume, slave_volume |-> slave_volume,
     master_open_price |-> master_open_price,
     slave_open_price |-> slave_open_price,
     master_sl |-> master_sl, master_tp |-> master_tp,
     slave_sl |-> slave_sl, slave_tp |-> slave_tp,
     opened_at |-> opened_at, risk_percent |-> 0]

\* The events the monitor emits for a ticket (services/monitor_service.py):
\* NEW carries the current position, CLOSED the previous one, the others
\* both.  The fields of a position that the handler of the event never reads
\* are held at those of Quiet(t).
Quiet(t) ==
    [ticket |-> t, symbol |-> TicketSymbol(t), type |-> TicketType(t),
     volume |-> MaxVolume, price_open |-> TicketPriceOpen(t), sl |-> 0, tp |-> 0]

NewEvents ==
    UNION {{TradeEvent("NEW", t, p, NoPosition) : p \in TradePosition(t)} : t \in Tickets}

ClosedEvents ==
    {TradeEvent("CLOSED", t, NoPosition, Quiet(t)) : t \in Tickets}

ModifiedSlEvents ==
    UNION {{TradeEvent("MODIFIED_SL", t, [Quiet(t) EXCEPT !.sl = x[1]],
                       [Quiet(t) EXCEPT !.sl = x[2]]) :
              x \in {y \in Prices \X Prices : y[1] # y[2]}} : t \in Tickets}

ModifiedTpEvents ==
    UNION {{TradeEvent("MODIFIED_TP", t, [Quiet(t) EXCEPT !.tp = x[1]],
                       [Quiet(t) EXCEPT !.tp = x[2]]) :
              x \in {y \in Prices \X Prices : y[1] # y[2]}} : t \in Tickets}

PartialCloseEvents ==
    UNION {{TradeEvent("PARTIAL_CLOSE", t, [Quiet(t) EXCEPT !.volume = x[1]],
                       [Quiet(t) EXCEPT !.volume = x[2]]) :
              x \in {y \in Volumes \X Volumes : y[1] < y[2]}} : t \in Tickets}

----------------------------------------------------------------------------
(* The slave terminal behind MT5Service (services/mt5_service.py).         *)
(* terminal: open target positions by ticket.  Every MT5Service method     *)
(* returns its OrderResult together with the terminal it leaves and the    *)
(* requests it passed to mt5.order_send; `fault` is the terminal call that *)
(* fails during the method, if any.                                        *)

Faults == {"none", "symbol_select", "positions_get", "no_tick", "send_none", "retcode"}

Request(kind, position, symbol, type, volume, sl, tp, comment) ==
    [action |-> kind, position |-> position, symbol |-> symbol, type |-> type,
     volume |-> volume, sl |-> sl, tp |-> tp, comment |-> comment]

OrderResult(success, ticket, volume, price, term, sent) ==
    [success |-> success, ticket |-> ticket, volume |-> volume, price |-> price,
     raised |-> FALSE, terminal |-> term, sent |-> sent]

\* an exception leaves the method
Raise(term, sent) ==
    [success |-> FALSE, ticket |-> None, volume |-> None, price |-> None,
     raised |-> TRUE, terminal |-> term, sent |-> sent]

Without(f, k) == [x \in DOMAIN f \ {k} |-> f[x]]

With(f, k, v) == [x \in DOMAIN f \cup {k} |-> IF x = k THEN v ELSE f[x]]

FillPrice == 20

place_market_order(term, order, symbol, order_type, volume, sl, tp, comment, fault) ==
    IF fault = "symbol_select" \/ fault = "no_tick"
    THEN OrderResult(FALSE, None, None, None, term, <<>>)
    ELSE LET request == Request("DEAL", 0, symbol, order_type, volume, sl, tp, "CT#")
         IN  IF fault = "send_none" \/ fault = "retcode"
             THEN OrderResult(FALSE, None, None, None, term, <<request>>)
             ELSE OrderResult(TRUE, order, volume, FillPrice,
                              With(term, order,
                                   [symbol |-> symbol, type |-> order_type,
                                    volume |-> volume, sl |-> sl, tp |-> tp,
                                    comment |-> comment]),
                              <<request>>)

close_position(term, ticket, fault) ==
    IF ticket \notin DOMAIN term \/ fault = "positions_get"
    THEN OrderResult(FALSE, None, None, None, term, <<>>)
    ELSE LET pos == term[ticket]
             request == Request("DEAL", ticket, pos.symbol, 1 - pos.type,
                                pos.volume, None, None, "CopyTrade Close")
         IN  IF fault = "no_tick" THEN Raise(term, <<>>)
             ELSE IF fault = "send_none" \/ fault = "retcode"
             THEN OrderResult(FALSE, None, None, None, term, <<request>>)
             ELSE OrderResult(TRUE, ticket, None, None, Without(term, ticket),
                              <<request>>)

\* the terminal after a deal that closes `lots` hundredths of a position: a
\* position with no volume left is closed
Reduced(term, ticket, lots) ==
    IF lots >= term[ticket].volume THEN Without(term, ticket)
    ELSE [term EXCEPT ![ticket].volume = @ - lots]

partial_close(term, ticket, volume_to_close, fault) ==
    IF ticket \notin DOMAIN term \/ fault = "positions_get"
    THEN OrderResult(FALSE, None, None, None, term, <<>>)
    ELSE LET pos == term[ticket]
             request == Request("DEAL", ticket, pos.symbol, 1 - pos.type,
                                volume_to_close, None, None, "CopyTrade Partial")
         IN  IF FGeq(volume_to_close, Vol(pos.volume))
             THEN close_position(term, ticket, fault)
             ELSE IF fault = "no_tick" THEN Raise(term, <<>>)
             ELSE IF fault = "send_none" \/ fault = "retcode"
             THEN OrderResult(FALSE, None, None, None, term, <<request>>)
             ELSE OrderResult(TRUE, ticket, volume_to_close, None,
                              Reduced(term, ticket, Lots(volume_to_close)),
                              <<request>>)

modify_position(term, ticket, sl, tp, fault) ==
    IF ticket \notin DOMAIN term \/ fault = "positions_get"
    THEN OrderResult(FALSE, None, None, None, term, <<>>)
    ELSE LET pos == term[ticket]
             new_sl == IF sl # None THEN sl ELSE pos.sl
             new_tp == IF tp # None THEN tp ELSE pos.tp
             request == Request("SLTP", ticket, pos.symbol, None, None, new_sl, new_tp, "")
         IN  IF new_sl = pos.sl /\ new_tp = pos.tp
             THEN OrderResult(TRUE, ticket, None, None, term, <<>>)
             ELSE IF fault = "send_none" \/ fault = "retcode"
             THEN OrderResult(FALSE, None, None, None, term, <<request>>)
             ELSE OrderResult(TRUE, ticket, None, None,
                              [term EXCEPT ![ticket].sl = new_sl, ![ticket].tp = new_tp],
                              <<request>>)

\* volume_step and volume_min of the slave terminal's symbols, in hundredths
SymbolSpec(symbol) ==
    IF symbol = "EURUSD" THEN [volume_step |-> 1, volume_min |-> 1]
    ELSE [volume_step |-> 2, volume_min |-> 2]

NoSymbolInfo == [volume_step |-> 0, volume_min |-> 0]

\* found: does mt5.symbol_info know the symbol
get_symbol_info(symbol, found) ==
    IF found THEN SymbolSpec(symbol) ELSE NoSymbolInfo

----------------------------------------------------------------------------
(* PositionTracker (services/position_tracker.py): the mappings by master  *)
(* ticket and the backup file.  disk: how the write of the file ends.      *)

\* torn: the file holds the beginning of a write that did not finish
NoFile == [exists |-> FALSE, torn |-> FALSE, data |-> <<>>]

Tracker(mappings, file) == [mappings |-> mappings, file |-> file]

\* PositionMapping.to_dict: the fourteen fields under their names.  json
\* writes a float as the shortest decimal that reads back as the same
\* double, so the value in the file is written as the double itself.
to_dict(m) ==
    [master_ticket |-> m.master_ticket, slave_ticket |-> m.slave_ticket,
     symbol |-> m.symbol, direction |-> m.direction,
     master_volume |-> m.master_volume, slave_volume |-> m.slave_volume,
     master_open_price |-> m.master_open_price,
     slave_open_price |-> m.slave_open_price,
     master_sl |-> m.master_sl, master_tp |-> m.master_tp,
     slave_sl |-> m.slave_sl, slave_tp |-> m.slave_tp,
     opened_at |-> m.opened_at, risk_percent |-> m.risk_percent]

\* from_dict leaving the four stops at the defaults of the dataclass
from_dict_without_stops(data) ==
    [PositionMapping(data.master_ticket, data.slave_ticket, data.symbol,
                     data.direction, data.master_volume, data.slave_volume,
                     data.master_open_price, data.slave_open_price,
                     0, 0, 0, 0, data.opened_at)
        EXCEPT !.risk_percent = data.risk_percent]

\* PositionMapping.from_dict: cls(**data)
from_dict(data) ==
    [PositionMapping(data.master_ticket, data.slave_ticket, data.symbol,
                     data.direction, data.master_volume, data.slave_volume,
                     data.master_open_price, data.slave_open_price,
                     data.master_sl, data.master_tp, data.slave_sl, data.slave_tp,
                     data.opened_at)
        EXCEPT !.risk_percent = data.risk_percent]

\* open(..., "w") empties the file and json.dump writes the whole store,
\* {str(ticket): mapping.to_dict() ...}, the key of the file being the
\* decimal text of the key in memory and written here as that key; an
\* exception is logged and swallowed.  disk = "open_fails": open raises and
\* the file is left as it was; "write_fails": the write stops part-way
save_to_file(trk, disk) ==
    IF disk = "ok"
    THEN Tracker(trk.mappings, [exists |-> TRUE, torn |-> FALSE, data |-> [t \in DOMAIN trk.mappings |-> to_dict(trk.mappings[t])]])
    ELSE IF disk = "write_fails"
    THEN Tracker(trk.mappings, [exists |-> TRUE, torn |-> TRUE, data |-> <<>>])
    ELSE trk

\* the mappings of the file, each under its own master_ticket
Loaded(data) ==
    [t \in {data[k].master_ticket : k \in DOMAIN data} |->
        from_dict(data[CHOOSE k \in DOMAIN data : data[k].master_ticket = t])]

\* load_from_file: no file leaves the store as it is, a file that does not
\* parse empties it
load_from_file(trk) ==
    IF ~trk.file.exists THEN trk
    ELSE IF trk.file.torn THEN Tracker(<<>>, trk.file)
    ELSE Tracker(Loaded(trk.file.data), trk.file)

\* add_mapping giving the mapping up when the write of the file fails
add_mapping_undone_on_failure(trk, mapping, disk) ==
    IF disk = "ok"
    THEN save_to_file(Tracker(With(trk.mappings, mapping.master_ticket, mapping), trk.file),
                      disk)
    ELSE trk

add_mapping(trk, mapping, disk) ==
    save_to_file(Tracker(With(trk.mappings, mapping.master_ticket, mapping), trk.file),
                 disk)

\* remove_mapping without the write of the file
remove_mapping_unsaved(trk, master_ticket, disk) ==
    IF master_ticket \in DOMAIN trk.mappings
    THEN Tracker(Without(trk.mappings, master_ticket), trk.file)
    ELSE trk

remove_mapping(trk, master_ticket, disk) ==
    IF master_ticket \in DOMAIN trk.mappings
    THEN save_to_file(Tracker(Without(trk.mappings, master_ticket), trk.file), disk)
    ELSE trk

\* has_mapping looking the ticket up among the slave tickets
has_mapping_by_slave_ticket(trk, master_ticket) ==
    \E t \in DOMAIN trk.mappings : trk.mappings[t].slave_ticket = master_ticket

has_mapping(trk, master_ticket) == master_ticket \in DOMAIN trk.mappings

\* update_slave_sl_tp writing the new stop only to the slave side
update_slave_side_only(trk, master_ticket, sl, tp, disk) ==
    IF master_ticket \in DOMAIN trk.mappings
    THEN LET m  == trk.mappings[master_ticket]
             m1 == IF sl # None THEN [m EXCEPT !.slave_sl = sl] ELSE m
             m2 == IF tp # None THEN [m1 EXCEPT !.slave_tp = tp] ELSE m1
         IN  save_to_file(Tracker([trk.mappings EXCEPT ![master_ticket] = m2], trk.file),
                          disk)
    ELSE trk

update_slave_sl_tp(trk, master_ticket, sl, tp, disk) ==
    IF master_ticket \in DOMAIN trk.mappings
    THEN LET m  == trk.mappings[master_ticket]
             m1 == IF sl # None THEN [m EXCEPT !.slave_sl = sl, !.master_sl = sl] ELSE m
             m2 == IF tp # None THEN [m1 EXCEPT !.slave_tp = tp, !.master_tp = tp] ELSE m1
         IN  save_to_file(Tracker([trk.mappings EXCEPT ![master_ticket] = m2], trk.file),
                          disk)
    ELSE trk

\* update_slave_volume writing the new volume to both sides of the mapping
update_both_volumes(trk, master_ticket, new_slave_volume, disk) ==
    IF master_ticket \in DOMAIN trk.mappings
    THEN save_to_file(Tracker([trk.mappings EXCEPT
                                  ![master_ticket].slave_volume = new_slave_volume,
                                  ![master_ticket].master_volume = new_slave_volume],
                              trk.file), disk)
    ELSE trk

update_slave_volume(trk, master_ticket, new_slave_volume, disk) ==
    IF master_ticket \in DOMAIN trk.mappings
    THEN save_to_file(Tracker([trk.mappings EXCEPT
                                  ![master_ticket].slave_volume = new_slave_volume],
                              trk.file), disk)
    ELSE trk

\* what sync_check returns; the two lists hold each ticket at most once and
\* are written as sets
Orphaned(orphaned_master, orphaned_slave) ==
    [orphaned_master |-> orphaned_master, orphaned_slave |-> orphaned_slave]

\* sync_check naming a mapping whose slave is gone by its slave ticket
sync_check_by_slave_ticket(trk, master_tickets, slave_tickets) ==
    Orphaned({t \in DOMAIN trk.mappings : t \notin master_tickets},
             {trk.mappings[t].slave_ticket : t \in {u \in DOMAIN trk.mappings : trk.mappings[u].slave_ticket \notin slave_tickets}})

\* sync_check: both lists name the mappings by master ticket
sync_check(trk, master_tickets, slave_tickets) ==
    Orphaned({t \in DOMAIN trk.mappings : t \notin master_tickets},
             {t \in DOMAIN trk.mappings : trk.mappings[t].slave_ticket \notin slave_tickets})

\* cleanup_orphaned of the first n tickets of the list; disks[i] is how the
\* write of the i-th remove_mapping ends, if it writes.  It gives the
\* tracker it leaves, the calls of save_to_file made and how the last ended
RECURSIVE cleanup_orphaned(_, _, _, _)
cleanup_orphaned(trk, orphaned_master_tickets, disks, n) ==
    IF n = 0 THEN [tracker |-> trk, saves |-> 0, disk |-> ""]
    ELSE LET c == cleanup_orphaned(trk, orphaned_master_tickets, disks, n - 1)
         IN  IF orphaned_master_tickets[n] \in DOMAIN c.tracker.mappings
             THEN [tracker |-> remove_mapping(c.tracker, orphaned_master_tickets[n], disks[n]),
                   saves |-> c.saves + 1, disk |-> disks[n]]
             ELSE c

----------------------------------------------------------------------------
(* CopierService (services/copier_service.py).  A handler takes the event, *)
(* the tracker, the terminal and the ticket the terminal gives its next    *)
(* order, and returns what it leaves: tracker, terminal, the MT5Service    *)
(* calls it made, the requests that reached mt5.order_send, how it ended,  *)
(* the warnings it logged and the symbol info it was given.                *)

Call(op, ticket, symbol, type, volume, sl, tp) ==
    [op |-> op, ticket |-> ticket, symbol |-> symbol, type |-> type,
     volume |-> volume, sl |-> sl, tp |-> tp]

Handled(trk, term, calls, sent, outcome, warnings, symbol_info) ==
    [tracker |-> trk, terminal |-> term, calls |-> calls, sent |-> sent,
     outcome |-> outcome, warnings |-> warnings, symbol_info |-> symbol_info]

\* how a handler ends after a call of MT5Service
Ending(result) ==
    IF result.raised THEN "raised" ELSE IF result.success THEN "success" ELSE "failed"

\* datetime.now().isoformat()
Now == "now"

\* new_mapping leaving the stops of the slave side at their defaults
new_mapping_without_stops(pos, result) ==
    PositionMapping(pos.ticket, result.ticket, pos.symbol, direction(pos.type),
                    Vol(pos.volume), Vol(pos.volume), pos.price_open,
                    IF result.price # None THEN result.price ELSE 0,
                    pos.sl, pos.tp, 0, 0, Now)

\* lines 75-89: the mapping recorded for a copied position
new_mapping(pos, result) ==
    PositionMapping(pos.ticket, result.ticket, pos.symbol, direction(pos.type),
                    Vol(pos.volume), Vol(pos.volume), pos.price_open,
                    IF result.price # None THEN result.price ELSE 0,
                    pos.sl, pos.tp, pos.sl, pos.tp, Now)

\* copied without the early return on a failed order
copied_whatever_the_result(trk, pos, result, calls, disk) ==
    Handled(add_mapping(trk, new_mapping(pos, result), disk),
            result.terminal, calls, result.sent, Ending(result), 0, NoSymbolInfo)

\* lines 70-89: what _handle_new does with the result of the order
copied(trk, pos, result, calls, disk) ==
    IF ~result.success
    THEN Handled(trk, result.terminal, calls, result.sent, Ending(result), 0,
                 NoSymbolInfo)
    ELSE Handled(add_mapping(trk, new_mapping(pos, result), disk),
                 result.terminal, calls, result.sent, "success", 0, NoSymbolInfo)

handle_new(event, trk, term, order, fault, disk) ==
    LET pos == event.position
    IN  IF pos = NoPosition
        THEN Handled(trk, term, <<>>, <<>>, "skipped", 0, NoSymbolInfo)
        ELSE IF has_mapping(trk, pos.ticket)
        THEN Handled(trk, term, <<>>, <<>>, "skipped", 1, NoSymbolInfo)
        ELSE copied(trk, pos,
                    place_market_order(term, order, pos.symbol, pos.type,
                                       pos.volume, pos.sl, pos.tp, pos.ticket, fault),
                    <<Call("place_market_order", pos.ticket, pos.symbol,
                           pos.type, pos.volume, pos.sl, pos.tp)>>,
                    disk)

\* closed removing the mapping without looking at the result
closed_whatever_the_result(trk, master_ticket, result, calls, disk) ==
    Handled(remove_mapping(trk, master_ticket, disk),
            result.terminal, calls, result.sent, Ending(result), 0, NoSymbolInfo)

\* lines 109-114: what _handle_close does with the result of the close
closed(trk, master_ticket, result, calls, disk) ==
    IF ~result.success
    THEN Handled(trk, result.terminal, calls, result.sent, Ending(result), 0,
                 NoSymbolInfo)
    ELSE Handled(remove_mapping(trk, master_ticket, disk),
                 result.terminal, calls, result.sent, "success", 0, NoSymbolInfo)

\* handle_close skipping an unmapped ticket without the warning
handle_close_silent(event, trk, term, fault, disk) ==
    IF ~has_mapping(trk, event.master_ticket)
    THEN Handled(trk, term, <<>>, <<>>, "skipped", 0, NoSymbolInfo)
    ELSE LET mapping == trk.mappings[event.master_ticket]
         IN  closed(trk, event.master_ticket,
                    close_position(term, mapping.slave_ticket, fault),
                    <<Call("close_position", mapping.slave_ticket, "", None,
                           None, None, None)>>,
                    disk)

handle_close(event, trk, term, fault, disk) ==
    IF ~has_mapping(trk, event.master_ticket)
    THEN Handled(trk, term, <<>>, <<>>, "skipped", 1, NoSymbolInfo)
    ELSE LET mapping == trk.mappings[event.master_ticket]
         IN  closed(trk, event.master_ticket,
                    close_position(term, mapping.slave_ticket, fault),
                    <<Call("close_position", mapping.slave_ticket, "", None,
                           None, None, None)>>,
                    disk)

\* lines 125-129 and 140-144: what the modify handlers do with the result
modified(trk, master_ticket, sl, tp, result, calls, disk) ==
    IF result.success
    THEN Handled(update_slave_sl_tp(trk, master_ticket, sl, tp, disk),
                 result.terminal, calls, result.sent, "success", 0, NoSymbolInfo)
    ELSE Handled(trk, result.terminal, calls, result.sent, Ending(result), 0,
                 NoSymbolInfo)

\* event.position.sl of an event without position raises before the call
handle_modify_sl(event, trk, term, fault, disk) ==
    IF ~has_mapping(trk, event.master_ticket)
    THEN Handled(trk, term, <<>>, <<>>, "skipped", 0, NoSymbolInfo)
    ELSE IF event.position = NoPosition
    THEN Handled(trk, term, <<>>, <<>>, "raised", 0, NoSymbolInfo)
    ELSE LET mapping == trk.mappings[event.master_ticket]
         IN  modified(trk, event.master_ticket, event.position.sl, None,
                      modify_position(term, mapping.slave_ticket,
                                      event.position.sl, None, fault),
                      <<Call("modify_position", mapping.slave_ticket, "", None,
                             None, event.position.sl, None)>>,
                      disk)

handle_modify_tp(event, trk, term, fault, disk) ==
    IF ~has_mapping(trk, event.master_ticket)
    THEN Handled(trk, term, <<>>, <<>>, "skipped", 0, NoSymbolInfo)
    ELSE IF event.position = NoPosition
    THEN Handled(trk, term, <<>>, <<>>, "raised", 0, NoSymbolInfo)
    ELSE LET mapping == trk.mappings[event.master_ticket]
         IN  modified(trk, event.master_ticket, None, event.position.tp,
                      modify_position(term, mapping.slave_ticket,
                                      None, event.position.tp, fault),
                      <<Call("modify_position", mapping.slave_ticket, "", None,
                             None, None, event.position.tp)>>,
                      disk)

Max(a, b) == IF a >= b THEN a ELSE b

\* FloorQuot on the volumes and steps of the model, computed once
FloorQuotOf ==
    [p \in Volumes, c \in Volumes,
     s \in {SymbolSpec(TicketSymbol(t)).volume_step : t \in Tickets}
        |-> IF c < p THEN FloorQuot(p, c, s) ELSE 0]

\* lines 156-167: the volume to close, a double.  round(v, 8) returns the
\* double nearest to the decimal v is within 1e-8 of, so the rounded
\* maximum of floor * step and v_min is the double of a count of hundredths;
\* without symbol info the difference of the two volumes is passed on as
\* the subtraction left it
normalize_volume(prev_volume, volume, symbol_info) ==
    IF symbol_info # NoSymbolInfo
    THEN Vol(Max(FloorQuotOf[prev_volume, volume, symbol_info.volume_step]
                     * symbol_info.volume_step,
                 symbol_info.volume_min))
    ELSE FMinus(Vol(prev_volume), Vol(volume))

\* lines 175-183: what _handle_partial_close does with the result
partially_closed(trk, master_ticket, mapping, volume_to_close, result, calls, symbol_info, disk) ==
    IF result.success
    THEN Handled(update_slave_volume(trk, master_ticket,
                                     FMinus(mapping.slave_volume, volume_to_close),
                                     disk),
                 result.terminal, calls, result.sent, "success", 0, symbol_info)
    ELSE Handled(trk, result.terminal, calls, result.sent, Ending(result), 0,
                 symbol_info)

\* prev.volume - pos.volume of an event without one of its positions raises
\* before get_symbol_info is called
handle_partial_close(event, trk, term, found, fault, disk) ==
    IF ~has_mapping(trk, event.master_ticket)
    THEN Handled(trk, term, <<>>, <<>>, "skipped", 0, NoSymbolInfo)
    ELSE IF event.position = NoPosition \/ event.previous_position = NoPosition
    THEN Handled(trk, term, <<>>, <<>>, "raised", 0, NoSymbolInfo)
    ELSE LET mapping == trk.mappings[event.master_ticket]
             pos == event.position
             prev == event.previous_position
             symbol_info == get_symbol_info(pos.symbol, found)
             volume_to_close == normalize_volume(prev.volume, pos.volume, symbol_info)
         IN  partially_closed(trk, event.master_ticket, mapping, volume_to_close,
                 partial_close(term, mapping.slave_ticket, volume_to_close, fault),
                 <<Call("get_symbol_info", None, pos.symbol, None, None, None, None),
                   Call("partial_close", mapping.slave_ticket, "", None,
                        volume_to_close, None, None)>>,
                 symbol_info, disk)

\* process_event: dispatch on the event type; an exception raised by a
\* handler is caught and logged, the state is as the handler left it
process_event(event, trk, term, order, found, fault, disk) ==
    CASE event.event_type = "NEW" -> handle_new(event, trk, term, order, fault, disk)
      [] event.event_type = "CLOSED" -> handle_close(event, trk, term, fault, disk)
      [] event.event_type = "MODIFIED_SL" -> handle_modify_sl(event, trk, term, fault, disk)
      [] event.event_type = "MODIFIED_TP" -> handle_modify_tp(event, trk, term, fault, disk)
      [] event.event_type = "PARTIAL_CLOSE" ->
             handle_partial_close(event, trk, term, found, fault, disk)
      [] OTHER -> Handled(trk, term, <<>>, <<>>, "skipped", 0, NoSymbolInfo)

----------------------------------------------------------------------------
(* MonitorService (services/monitor_service.py).  A snapshot is a Python   *)
(* dict by ticket, which iterates in the order its keys were first         *)
(* inserted: it is written as the sequence of its positions in that order. *)
(* The stops of a master position are counted in points of 0.00001 and its *)
(* volume in hundredths of a lot, and the 1e-6 of the comparisons is       *)
(* counted in the same units.  A TradeEvent is written without its         *)
(* timestamp, which main.py does not put on the queue.                     *)

MaxMasterTicket == 3
MaxMasterVolume == 2
MaxPositions == 2

\* how many times 1e-6 goes into a point and into a hundredth of a lot
EpsilonsPerPoint == 10
EpsilonsPerVolume == 10000

MasterTickets == 1..MaxMasterTicket

\* the states the master position of ticket t is seen in: the first ticket
\* varies in volume and in both stops, the others in their stop loss
MasterPosition(t) ==
    [ticket : {t}, symbol : {TicketSymbol(t)}, type : {TicketType(t)},
     volume : IF t = 1 THEN 1..MaxMasterVolume ELSE {MaxMasterVolume},
     price_open : {TicketPriceOpen(t)},
     sl : Prices, tp : IF t = 1 THEN Prices ELSE {0}]

MasterPositions == UNION {MasterPosition(t) : t \in MasterTickets}

\* what mt5.get_positions can return: the open positions of the master
\* terminal, no two of one ticket
PositionLists ==
    {l \in UNION {[1..n -> MasterPositions] : n \in 0..MaxPositions} :
        \A i, j \in DOMAIN l : l[i].ticket = l[j].ticket => i = j}

Keys(snapshot) == {snapshot[i].ticket : i \in DOMAIN snapshot}

Get(snapshot, ticket) ==
    snapshot[CHOOSE i \in DOMAIN snapshot : snapshot[i].ticket = ticket]

\* snapshot[pos.ticket] = pos: a key already there keeps its place
SetItem(snapshot, pos) ==
    IF pos.ticket \in Keys(snapshot)
    THEN [i \in DOMAIN snapshot |->
             IF snapshot[i].ticket = pos.ticket THEN pos ELSE snapshot[i]]
    ELSE Append(snapshot, pos)

\* {pos.ticket: pos for pos in current_positions}
RECURSIVE DictOf(_, _)
DictOf(current_positions, n) ==
    IF n = 0 THEN <<>>
    ELSE SetItem(DictOf(current_positions, n - 1), current_positions[n])

current_snapshot(current_positions) == DictOf(current_positions, Len(current_positions))

Abs(x) == IF x < 0 THEN -x ELSE x

\* abs(a - b) > 1e-6 for two stops
StopChanged(a, b) == Abs(a - b) * EpsilonsPerPoint > 1

\* a < b - 1e-6 for two volumes
VolumeDecreased(a, b) == a * EpsilonsPerVolume < b * EpsilonsPerVolume - 1

\* 1. one NEW event for every ticket of the current snapshot that the
\* previous one lacks
new_positions(cur, prev) ==
    LET fresh(pos) == pos.ticket \notin Keys(prev)
        s == SelectSeq(cur, fresh)
    IN  [i \in DOMAIN s |-> TradeEvent("NEW", s[i].ticket, s[i], NoPosition)]

\* closed_positions taking an empty snapshot for a read that gave no data
closed_positions_unless_all_gone(cur, prev) ==
    LET gone(pos) == pos.ticket \notin Keys(cur)
        s == IF cur = <<>> THEN <<>> ELSE SelectSeq(prev, gone)
    IN  [i \in DOMAIN s |-> TradeEvent("CLOSED", s[i].ticket, NoPosition, s[i])]

\* 2. one CLOSED event for every ticket of the previous snapshot that the
\* current one lacks
closed_positions(cur, prev) ==
    LET gone(pos) == pos.ticket \notin Keys(cur)
        s == SelectSeq(prev, gone)
    IN  [i \in DOMAIN s |-> TradeEvent("CLOSED", s[i].ticket, NoPosition, s[i])]

\* ticket_modifications taking any change of volume for a partial close
ticket_modifications_any_volume(current_pos, prev_pos) ==
    (IF StopChanged(current_pos.sl, prev_pos.sl)
     THEN <<TradeEvent("MODIFIED_SL", current_pos.ticket, current_pos, prev_pos)>>
     ELSE <<>>)
    \o (IF StopChanged(current_pos.tp, prev_pos.tp)
        THEN <<TradeEvent("MODIFIED_TP", current_pos.ticket, current_pos, prev_pos)>>
        ELSE <<>>)
    \o (IF current_pos.volume # prev_pos.volume
        THEN <<TradeEvent("PARTIAL_CLOSE", current_pos.ticket, current_pos, prev_pos)>>
        ELSE <<>>)

\* 3. the events of one ticket that both snapshots hold
ticket_modifications(current_pos, prev_pos) ==
    (IF StopChanged(current_pos.sl, prev_pos.sl)
     THEN <<TradeEvent("MODIFIED_SL", current_pos.ticket, current_pos, prev_pos)>>
     ELSE <<>>)
    \o (IF StopChanged(current_pos.tp, prev_pos.tp)
        THEN <<TradeEvent("MODIFIED_TP", current_pos.ticket, current_pos, prev_pos)>>
        ELSE <<>>)
    \o (IF VolumeDecreased(current_pos.volume, prev_pos.volume)
        THEN <<TradeEvent("PARTIAL_CLOSE", current_pos.ticket, current_pos, prev_pos)>>
        ELSE <<>>)

RECURSIVE modifications(_, _, _)
modifications(cur, prev, n) ==
    IF n = 0 THEN <<>>
    ELSE modifications(cur, prev, n - 1)
         \o (IF cur[n].ticket \in Keys(prev)
             THEN ticket_modifications(cur[n], Get(prev, cur[n].ticket))
             ELSE <<>>)

\* a monitor: its two attributes and the list its last detect_changes
\* returned
Monitor(initialized, previous_snapshot, events) ==
    [initialized |-> initialized, previous_snapshot |-> previous_snapshot,
     events |-> events]

MonitorService == Monitor(FALSE, <<>>, <<>>)

\* detect_changes keeping a baseline whose closures it has just reported
detect_changes_keeping_closed(m, current_positions) ==
    LET cur == current_snapshot(current_positions)
        prev == m.previous_snapshot
    IN  IF ~m.initialized THEN Monitor(TRUE, cur, <<>>)
        ELSE Monitor(TRUE, IF closed_positions(cur, prev) # <<>> THEN prev ELSE cur,
                     new_positions(cur, prev) \o closed_positions(cur, prev)
                         \o modifications(cur, prev, Len(cur)))

\* detect_changes comparing its first snapshot with the empty one
detect_changes_from_empty(m, current_positions) ==
    LET cur == current_snapshot(current_positions)
        prev == m.previous_snapshot
    IN  Monitor(TRUE, cur,
                new_positions(cur, prev) \o closed_positions(cur, prev)
                    \o modifications(cur, prev, Len(cur)))

\* detect_changes looking for the closed positions first
detect_changes_closed_first(m, current_positions) ==
    LET cur == current_snapshot(current_positions)
        prev == m.previous_snapshot
    IN  IF ~m.initialized THEN Monitor(TRUE, cur, <<>>)
        ELSE Monitor(TRUE, cur,
                     closed_positions(cur, prev) \o new_positions(cur, prev)
                         \o modifications(cur, prev, Len(cur)))

\* detect_changes replacing the baseline only when it returns events
detect_changes_keeping_baseline(m, current_positions) ==
    LET cur == current_snapshot(current_positions)
        prev == m.previous_snapshot
        evs == new_positions(cur, prev) \o closed_positions(cur, prev)
                   \o modifications(cur, prev, Len(cur))
    IN  IF ~m.initialized THEN Monitor(TRUE, cur, <<>>)
        ELSE Monitor(TRUE, IF evs = <<>> THEN prev ELSE cur, evs)

\* detect_changes with an events list that lives on from call to call
detect_changes_accumulating(m, current_positions) ==
    LET cur == current_snapshot(current_positions)
        prev == m.previous_snapshot
    IN  IF ~m.initialized THEN Monitor(TRUE, cur, m.events)
        ELSE Monitor(TRUE, cur,
                     m.events \o new_positions(cur, prev) \o closed_positions(cur, prev)
                         \o modifications(cur, prev, Len(cur)))

detect_changes(m, current_positions) ==
    LET cur == current_snapshot(current_positions)
        prev == m.previous_snapshot
    IN  IF ~m.initialized THEN Monitor(TRUE, cur, <<>>)
        ELSE Monitor(TRUE, cur,
                     new_positions(cur, prev) \o closed_positions(cur, prev)
                         \o modifications(cur, prev, Len(cur)))

reset(m) == Monitor(FALSE, <<>>, m.events)

\* the tracker call made last: its name, how its last write of the file
\* ended ("" when it wrote nothing), how the last write of any call so far
\* ended, the mappings it found and left in memory, whether the file held
\* the mappings it found, how many times it called save_to_file, and what
\* it returned
TrackerCall(op, disk, attempt, before, after, persisted, saves, returned) ==
    [op |-> op, disk |-> disk, attempt |-> attempt, before |-> before,
     after |-> after, persisted |-> persisted, saves |-> saves,
     returned |-> returned]

NoCall == TrackerCall("", "", "", <<>>, <<>>, TRUE, 0, Orphaned({}, {}))

\* One of the two processes of main.py.  pc: before its first connect, in
\* its loop, or returned.  connected: MT5Service._connected.  session: does
\* the terminal answer.  did: what its last step was.  exit: the calls it
\* made between its loop and its return.  passed: the dicts master_process
\* has put on the queue.
Worker(pc, connected, session, did, exit, passed) ==
    [pc |-> pc, connected |-> connected, session |-> session, did |-> did,
     exit |-> exit, passed |-> passed]

NewWorker == Worker("connect", FALSE, FALSE, "", <<>>, <<>>)

\* MT5Service.connect: ok tells whether mt5.initialize and account_info
\* succeed; an exception is caught and gives False
connect(w, ok) == [w EXCEPT !.connected = ok, !.session = ok]

\* MT5Service.disconnect
disconnect(w) == [w EXCEPT !.connected = FALSE, !.session = FALSE]

\* main after p_master.start() and p_slave.start()
Main(pc) == [pc |-> pc]

\* Process.is_alive
is_alive(w) == w.pc # "exited"

\* main leaving a process that outlived its join as it is
terminate_never(w) == w

\* lines 297-300: Process.terminate for a process that is still alive
terminate(w) ==
    IF is_alive(w) THEN [w EXCEPT !.pc = "exited", !.did = "terminated"] ELSE w

----------------------------------------------------------------------------
(* The executor: slave_process of main.py hands each event of the queue to *)
(* copier.process_event.                                                    *)

VARIABLES
    mappings,     \* PositionTracker._mappings
    file,         \* position_map.json
    terminal,     \* open positions of the slave terminal
    orders,       \* number of orders the slave terminal has filled
    lastEvent,    \* the event processed last
    calls,        \* MT5Service calls made for lastEvent
    sent,         \* requests passed to mt5.order_send for lastEvent
    outcome,      \* how the handling of lastEvent ended
    warnings,     \* logger.warning calls made for lastEvent
    symbol_info,  \* what get_symbol_info returned for lastEvent
    monitor,      \* the MonitorService of master_process
    twin,         \* a second MonitorService, with a history of its own
    polls,        \* passes of the loop of master_process so far
    outbox,       \* events of the current pass not yet put on the queue
    queue,        \* event_queue: the dicts put and not yet taken
    received,     \* the event slave_process took and has not yet executed
    emitted,      \* every event detect_changes returned to master_process
    processed,    \* every event handed to copier.process_event
    last_call,    \* the most recent mutating call on the tracker
    process,      \* is the executor process up
    positions,    \* what mt5.get_positions returned to master_process last
    stop_event,   \* the mp.Event the two processes and main share
    master,       \* master_process: where it is, its MT5Service, what it did
    slave,        \* slave_process: the same
    main          \* main: where it is after it started the two processes

executorVars == <<terminal, orders, lastEvent, calls, sent, outcome, warnings, symbol_info>>
monitorVars == <<monitor, twin, positions>>
queueVars == <<polls, outbox, queue, received, emitted, processed>>
storeVars == <<last_call, process>>
workerVars == <<stop_event, master, slave, main>>

vars == <<mappings, file, terminal, orders, lastEvent, calls, sent, outcome,
          warnings, symbol_info, monitor, twin, polls, outbox, queue, received,
          emitted, processed, last_call, process, positions, stop_event,
          master, slave, main>>

\* the ticket the slave terminal gives to its next order
NextOrder == 55501 + orders

Init ==
    /\ mappings = <<>>
    /\ file = NoFile
    /\ terminal = <<>>
    /\ orders = 0
    /\ lastEvent = NoEvent
    /\ calls = <<>>
    /\ sent = <<>>
    /\ outcome = ""
    /\ warnings = 0
    /\ symbol_info = NoSymbolInfo
    /\ monitor = MonitorService
    /\ twin = MonitorService
    /\ polls = 0
    /\ outbox = <<>>
    /\ queue = <<>>
    /\ received = NoEvent
    /\ emitted = <<>>
    /\ processed = <<>>
    /\ last_call = NoCall
    /\ process = "up"
    /\ positions = <<>>
    /\ stop_event = FALSE
    /\ master = NewWorker
    /\ slave = NewWorker
    /\ main = Main("wait")

\* One pass of the loop body of slave_process for a dequeued event.  A fault
\* of the terminal or an unknown symbol is drawn only where the handler
\* reaches the terminal, and the terminal fills at most MaxOrders orders.
Process(event, found, fault, disk) ==
    LET h == process_event(event, Tracker(mappings, file), terminal, NextOrder,
                           found, fault, disk)
        filled == NextOrder \in DOMAIN h.terminal
    IN  /\ filled => orders < MaxOrders
        /\ (fault # "none" \/ ~found) => h.calls # <<>>
        /\ mappings' = h.tracker.mappings
        /\ file' = h.tracker.file
        /\ terminal' = h.terminal
        /\ orders' = IF filled THEN orders + 1 ELSE orders
        /\ lastEvent' = event
        /\ calls' = h.calls
        /\ sent' = h.sent
        /\ outcome' = h.outcome
        /\ warnings' = h.warnings
        /\ symbol_info' = h.symbol_info

\* the same while the monitor, the queue and the process stay as they are
ProcessAlone(event, found, fault, disk) ==
    /\ Process(event, found, fault, disk)
    /\ UNCHANGED <<monitorVars, queueVars, storeVars, workerVars>>

HandleNew ==
    \E event \in NewEvents,
       fault \in {"none", "symbol_select", "no_tick", "send_none", "retcode"} :
        ProcessAlone(event, TRUE, fault, "ok")

HandleClose ==
    \E event \in ClosedEvents,
       fault \in {"none", "positions_get", "no_tick", "send_none", "retcode"} :
        ProcessAlone(event, TRUE, fault, "ok")

HandleModifySl ==
    \E event \in ModifiedSlEvents,
       fault \in {"none", "positions_get", "send_none", "retcode"} :
        ProcessAlone(event, TRUE, fault, "ok")

HandleModifyTp ==
    \E event \in ModifiedTpEvents,
       fault \in {"none", "positions_get", "send_none", "retcode"} :
        ProcessAlone(event, TRUE, fault, "ok")

HandlePartialClose ==
    \E event \in PartialCloseEvents, found \in BOOLEAN,
       fault \in {"none", "positions_get", "no_tick", "send_none", "retcode"} :
        ProcessAlone(event, found, fault, "ok")

Next ==
    \/ HandleNew
    \/ HandleClose
    \/ HandleModifySl
    \/ HandleModifyTp
    \/ HandlePartialClose

Spec == Init /\ [][Next]_vars

----------------------------------------------------------------------------
(* Properties of the executor.  In an action formula the primed variables  *)
(* are the event just processed and what its handler left, the unprimed    *)
(* ones the state the handler found.                                        *)

\* the open positions of the slave terminal that copy master ticket t
Targets(t) == {k \in DOMAIN terminal : terminal[k].comment = t}

\* the event just processed is of one of the types and finds / finds no mapping
Mapped(types) ==
    lastEvent'.event_type \in types /\ lastEvent'.master_ticket \in DOMAIN mappings

Orphan(types) ==
    lastEvent'.event_type \in types /\ lastEvent'.master_ticket \notin DOMAIN mappings

StoreUnchanged == mappings' = mappings /\ file' = file

\* C1: the store holds at most one mapping per source ticket, and it holds a
\* mapping for a ticket exactly while a target position copying that ticket
\* is open on the slave terminal.
C1_MappingIffTargetOpen ==
    \A t \in Tickets :
        /\ t \in DOMAIN mappings <=> Targets(t) # {}
        /\ t \in DOMAIN mappings =>
               /\ mappings[t].master_ticket = t
               /\ Targets(t) = {mappings[t].slave_ticket}

\* C2: a NEW event whose ticket already has a mapping makes no gateway call,
\* sends nothing to the terminal and leaves store, file and terminal as they
\* were; no source ticket ever has two target positions.
C2_DuplicateNewSkipped ==
    [][Mapped({"NEW"}) =>
           /\ calls' = <<>>
           /\ sent' = <<>>
           /\ StoreUnchanged
           /\ terminal' = terminal
           /\ orders' = orders
           /\ \A k1, k2 \in DOMAIN terminal' :
                  terminal'[k1].comment = terminal'[k2].comment => k1 = k2]_vars

C2_Witness ==
    /\ lastEvent.event_type = "NEW"
    /\ lastEvent.master_ticket \in DOMAIN mappings
    /\ outcome = "skipped"
    /\ warnings = 1
    /\ calls = <<>>
    /\ Vol(lastEvent.position.volume) # mappings[lastEvent.master_ticket].master_volume

\* C3: a NEW event without a mapping makes exactly one place_market_order
\* call with the symbol, direction, volume, SL and TP of the source position;
\* when the order succeeds the store maps the source ticket to the ticket the
\* terminal returned, with both volumes the source volume and the SL / TP of
\* both sides those of the source.
C3_NewPlacesOneOrder ==
    [][Orphan({"NEW"}) =>
           LET pos == lastEvent'.position
               t == pos.ticket
           IN  /\ calls' = <<Call("place_market_order", t, pos.symbol, pos.type,
                                  pos.volume, pos.sl, pos.tp)>>
               /\ Len(sent') <= 1
               /\ \A i \in DOMAIN sent' :
                      sent'[i] = Request("DEAL", 0, pos.symbol, pos.type,
                                         pos.volume, pos.sl, pos.tp, "CT#")
               /\ outcome' = "success" =>
                      /\ DOMAIN mappings' = DOMAIN mappings \cup {t}
                      /\ DOMAIN terminal' = DOMAIN terminal \cup {NextOrder}
                      /\ terminal'[NextOrder] =
                             [symbol |-> pos.symbol, type |-> pos.type,
                              volume |-> pos.volume, sl |-> pos.sl,
                              tp |-> pos.tp, comment |-> t]
                      /\ mappings'[t].master_ticket = t
                      /\ mappings'[t].slave_ticket = NextOrder
                      /\ mappings'[t].symbol = pos.symbol
                      /\ mappings'[t].direction = direction(pos.type)
                      /\ mappings'[t].master_volume = Vol(pos.volume)
                      /\ mappings'[t].slave_volume = Vol(pos.volume)
                      /\ mappings'[t].master_sl = pos.sl
                      /\ mappings'[t].slave_sl = pos.sl
                      /\ mappings'[t].master_tp = pos.tp
                      /\ mappings'[t].slave_tp = pos.tp]_vars

C3_Witness ==
    /\ lastEvent.event_type = "NEW"
    /\ outcome = "success"
    /\ Len(calls) = 1
    /\ lastEvent.master_ticket \in DOMAIN mappings
    /\ mappings[lastEvent.master_ticket].slave_sl = MaxPrice
    /\ mappings[lastEvent.master_ticket].slave_volume = Vol(MaxVolume)
    /\ mappings[lastEvent.master_ticket].slave_ticket \in DOMAIN terminal

\* C4: a NEW event whose order is rejected leaves no mapping: store, file and
\* terminal are as before and exactly one place_market_order call was made;
\* an order is only ever placed by the one call of a NEW event for that
\* event's own ticket, so no later event re-submits a failed order.
C4_RejectedOrderNotRetried ==
    [][/\ (Orphan({"NEW"}) /\ outcome' # "success") =>
              /\ StoreUnchanged
              /\ terminal' = terminal
              /\ Len(calls') = 1
              /\ calls'[1].op = "place_market_order"
              /\ Len(sent') <= 1
       /\ \A i \in DOMAIN calls' :
              calls'[i].op = "place_market_order" =>
                  /\ lastEvent'.event_type = "NEW"
                  /\ calls'[i].ticket = lastEvent'.master_ticket
                  /\ Len(calls') = 1
       /\ \A i \in DOMAIN sent' :
              sent'[i].comment = "CT#" =>
                  lastEvent'.event_type = "NEW" /\ Len(sent') = 1]_vars

C4_Witness ==
    /\ lastEvent.event_type = "NEW"
    /\ outcome = "failed"
    /\ Len(calls) = 1
    /\ Len(sent) = 1
    /\ lastEvent.master_ticket \notin DOMAIN mappings
    /\ terminal = <<>>
    /\ orders = 1

\* C5: a CLOSED event whose ticket has a mapping makes one close_position
\* call for the mapped target ticket; the mapping is removed exactly when the
\* close succeeded, and after a close that failed or raised the store is as
\* it was.
C5_CloseRemovesOnSuccess ==
    [][Mapped({"CLOSED"}) =>
           LET t == lastEvent'.master_ticket
           IN  /\ calls' = <<Call("close_position", mappings[t].slave_ticket, "",
                                  None, None, None, None)>>
               /\ \A i \in DOMAIN sent' :
                      /\ sent'[i].position = mappings[t].slave_ticket
                      /\ sent'[i].comment = "CopyTrade Close"
               /\ t \notin DOMAIN mappings' <=> outcome' = "success"
               /\ outcome' = "success" =>
                      /\ mappings' = Without(mappings, t)
                      /\ mappings[t].slave_ticket \notin DOMAIN terminal'
               /\ outcome' # "success" => StoreUnchanged /\ terminal' = terminal]_vars

C5_Witness ==
    /\ lastEvent.event_type = "CLOSED"
    /\ outcome = "failed"
    /\ Len(sent) = 1
    /\ lastEvent.master_ticket \in DOMAIN mappings
    /\ mappings[lastEvent.master_ticket].slave_ticket \in DOMAIN terminal

VolumeToClose == calls'[2].volume

\* what reaches the terminal for the event just processed is nothing or one
\* full close of the target position for its whole volume, and after a
\* success the position is gone
FullClose(slave_ticket) ==
    /\ \A i \in DOMAIN sent' :
           /\ sent'[i].comment = "CopyTrade Close"
           /\ sent'[i].position = slave_ticket
           /\ sent'[i].volume = terminal[slave_ticket].volume
    /\ outcome' = "success" =>
           /\ Len(sent') = 1
           /\ terminal' = Without(terminal, slave_ticket)

\* C7: when the close volume computed for a PARTIAL_CLOSE event is
\* at least the target volume tracked in the mapping, a full close of the
\* target position is issued instead of a partial close.
C7_FullCloseAtTrackedVolume ==
    [][(/\ Mapped({"PARTIAL_CLOSE"})
        /\ FGeq(VolumeToClose, mappings[lastEvent'.master_ticket].slave_volume)) =>
           FullClose(mappings[lastEvent'.master_ticket].slave_ticket)]_vars

\* What partial_close holds to (C7 with the volume the terminal reports in
\* the place of the tracked one): when the close volume computed for a
\* PARTIAL_CLOSE event is at least the volume the terminal reports for the
\* target position, a full close of the target position is issued instead of
\* a partial close; when it is less, what reaches the terminal is a partial
\* close for the computed volume.
C7_FullCloseAtLiveVolume ==
    [][Mapped({"PARTIAL_CLOSE"}) =>
           LET slave_ticket == mappings[lastEvent'.master_ticket].slave_ticket
           IN  /\ calls'[2] = Call("partial_close", slave_ticket, "", None,
                                   VolumeToClose, None, None)
               /\ slave_ticket \notin DOMAIN terminal => sent' = <<>>
               /\ slave_ticket \in DOMAIN terminal =>
                      IF FGeq(VolumeToClose, Vol(terminal[slave_ticket].volume))
                      THEN FullClose(slave_ticket)
                      ELSE \A i \in DOMAIN sent' :
                               /\ sent'[i].comment = "CopyTrade Partial"
                               /\ sent'[i].position = slave_ticket
                               /\ sent'[i].volume = VolumeToClose]_vars

\* C8: after a PARTIAL_CLOSE event that was executed as a full close and
\* succeeded the mapping is removed, and no mapping with a zero or negative
\* target volume remains in the store.
C8_FullCloseRemovesMapping ==
    /\ (/\ lastEvent.event_type = "PARTIAL_CLOSE"
        /\ outcome = "success"
        /\ \E i \in DOMAIN sent : sent[i].comment = "CopyTrade Close") =>
           lastEvent.master_ticket \notin DOMAIN mappings
    /\ \A t \in DOMAIN mappings :
           ~mappings[t].slave_volume.neg /\ ~FIsZero(mappings[t].slave_volume)

\* C9: after a PARTIAL_CLOSE event whose partial close succeeded, the close
\* volume being less than the tracked target volume, the mapping's target
\* volume is the previous one minus the volume closed and every other field
\* and mapping is as before; after one whose close failed or raised, store,
\* file and terminal are as they were.
C9_PartialCloseUpdatesVolume ==
    [][Mapped({"PARTIAL_CLOSE"}) =>
           LET t == lastEvent'.master_ticket
           IN  /\ (/\ outcome' = "success"
                   /\ ~FGeq(VolumeToClose, mappings[t].slave_volume)) =>
                      /\ mappings' = [mappings EXCEPT ![t].slave_volume =
                                          FMinus(@, VolumeToClose)]
                      /\ ~mappings'[t].slave_volume.neg
                      /\ Lots(mappings'[t].slave_volume) =
                             Lots(mappings[t].slave_volume) - Lots(VolumeToClose)
                      /\ file' = [exists |-> TRUE, torn |-> FALSE, data |-> mappings']
               /\ outcome' # "success" => StoreUnchanged /\ terminal' = terminal]_vars

C9_Witness ==
    /\ lastEvent.event_type = "PARTIAL_CLOSE"
    /\ outcome = "success"
    /\ Len(sent) = 1
    /\ sent[1].comment = "CopyTrade Partial"
    /\ lastEvent.master_ticket \in DOMAIN mappings
    /\ mappings[lastEvent.master_ticket].slave_volume = FMinus(Vol(MaxVolume), Vol(1))
    /\ mappings[lastEvent.master_ticket].master_volume = Vol(MaxVolume)
    /\ terminal[mappings[lastEvent.master_ticket].slave_ticket].volume = MaxVolume - 1

\* C10: with symbol info the volume a PARTIAL_CLOSE event asks to close is
\* max(floor((previous - current) / step) * step, volume_min), the floor
\* taken of the exact quotient of the decimal volumes, and so a multiple of
\* the step that is at least volume_min.
C10_FloorOfExactQuotient ==
    (/\ lastEvent.event_type = "PARTIAL_CLOSE"
     /\ calls # <<>>
     /\ symbol_info # NoSymbolInfo) =>
        calls[2].volume =
            Vol(Max(((lastEvent.previous_position.volume
                         - lastEvent.position.volume) \div symbol_info.volume_step)
                        * symbol_info.volume_step,
                    symbol_info.volume_min))

\* C11: a PARTIAL_CLOSE event with a mapping for whose symbol the gateway has
\* no symbol info is still executed, and the volume it asks to close is
\* normalised with the fallback step 0.01 and minimum 0.01:
\* max(floor((previous - current) / 0.01) * 0.01, 0.01), never the raw
\* difference of the two volumes.
C11_FallbackNormalises ==
    (/\ lastEvent.event_type = "PARTIAL_CLOSE"
     /\ calls # <<>>
     /\ symbol_info = NoSymbolInfo) =>
        /\ Len(calls) = 2
        /\ calls[2].op = "partial_close"
        /\ calls[2].volume =
               Vol(Max(FloorQuot(lastEvent.previous_position.volume,
                                 lastEvent.position.volume, 1), 1))

\* C12: a MODIFIED_SL (MODIFIED_TP) event whose ticket has a mapping makes one
\* modify_position call for the mapped target ticket that carries only the
\* stop-loss (take-profit) of the event; a request that reaches the terminal
\* carries that value and the other stop as the terminal has it.  After a
\* success the mapping's master and slave stop-loss (take-profit) are the
\* event's value and every other field and mapping is as before, the file
\* holding the store; after a failure store, file and terminal are as they
\* were.
C12_ModifyUpdatesBothSides ==
    [][Mapped({"MODIFIED_SL", "MODIFIED_TP"}) =>
           LET t == lastEvent'.master_ticket
               pos == lastEvent'.position
               isSl == lastEvent'.event_type = "MODIFIED_SL"
               slave_ticket == mappings[t].slave_ticket
           IN  /\ calls' = <<Call("modify_position", slave_ticket, "", None, None,
                                  IF isSl THEN pos.sl ELSE None,
                                  IF isSl THEN None ELSE pos.tp)>>
               /\ Len(sent') <= 1
               /\ \A i \in DOMAIN sent' :
                      sent'[i] = Request("SLTP", slave_ticket,
                                         terminal[slave_ticket].symbol, None, None,
                                         IF isSl THEN pos.sl ELSE terminal[slave_ticket].sl,
                                         IF isSl THEN terminal[slave_ticket].tp ELSE pos.tp,
                                         "")
               /\ outcome' = "success" =>
                      /\ mappings' =
                             IF isSl
                             THEN [mappings EXCEPT ![t].master_sl = pos.sl,
                                                   ![t].slave_sl = pos.sl]
                             ELSE [mappings EXCEPT ![t].master_tp = pos.tp,
                                                   ![t].slave_tp = pos.tp]
                      /\ file' = [exists |-> TRUE, torn |-> FALSE, data |-> mappings']
                      /\ terminal' =
                             IF isSl THEN [terminal EXCEPT ![slave_ticket].sl = pos.sl]
                             ELSE [terminal EXCEPT ![slave_ticket].tp = pos.tp]
               /\ outcome' # "success" => StoreUnchanged /\ terminal' = terminal]_vars

C12_Witness ==
    /\ lastEvent.event_type = "MODIFIED_SL"
    /\ outcome = "success"
    /\ Len(sent) = 1
    /\ lastEvent.master_ticket \in DOMAIN mappings
    /\ mappings[lastEvent.master_ticket].master_sl = MaxPrice
    /\ mappings[lastEvent.master_ticket].slave_sl = MaxPrice
    /\ mappings[lastEvent.master_ticket].slave_tp = 0
    /\ terminal[mappings[lastEvent.master_ticket].slave_ticket].sl = MaxPrice

----------------------------------------------------------------------------
(* The monitor on its own: master_process hands it what the master         *)
(* terminal reports at each poll, and reset may be called between polls.   *)

DetectChanges ==
    /\ \E current_positions \in PositionLists :
           /\ monitor' = detect_changes(monitor, current_positions)
           /\ positions' = current_positions
    /\ UNCHANGED <<mappings, file, executorVars, twin, queueVars, storeVars, workerVars>>

Reset ==
    /\ monitor' = reset(monitor)
    /\ UNCHANGED <<mappings, file, executorVars, twin, positions, queueVars, storeVars, workerVars>>

MonitorNext ==
    \/ DetectChanges
    \/ Reset

MonitorSpec == Init /\ [][MonitorNext]_vars

\* a step in which detect_changes ran on the monitor
Detected == monitor'.initialized /\ <<monitor, positions>>' # <<monitor, positions>>

\* C13: the first detect_changes call after construction or after reset()
\* returns no event, whatever the positions it is given, and keeps exactly
\* those positions as the baseline.
C13_FirstCallIsSilent ==
    [][(Detected /\ ~monitor.initialized) =>
           /\ monitor'.events = <<>>
           /\ monitor'.previous_snapshot = positions']_vars

\* a first call that was given two open positions
C13_Witness ==
    /\ monitor.initialized
    /\ monitor.events = <<>>
    /\ Len(positions) = MaxPositions
    /\ monitor.previous_snapshot = positions

\* the events of one type among those returned, in the order returned
OfType(evs, type) ==
    LET is(e) == e.event_type = type IN SelectSeq(evs, is)

\* the positions of a snapshot whose ticket the other snapshot lacks
Lacking(snapshot, other) ==
    LET absent(pos) == pos.ticket \notin Keys(other) IN SelectSeq(snapshot, absent)

\* the place of an event in the fixed order of a pass
Rank(e) == IF e.event_type = "NEW" THEN 1 ELSE IF e.event_type = "CLOSED" THEN 2 ELSE 3

\* C14: a detect_changes call on an initialised monitor returns one NEW
\* event per ticket that only the current snapshot holds, in the order of
\* the current snapshot, then one CLOSED event per ticket that only the
\* previous snapshot holds, in the order of the previous snapshot, then the
\* modification events, which are all of tickets that both hold; no NEW
\* event follows a CLOSED or modification event and no CLOSED event follows
\* a modification event.
C14_NewThenClosedThenModified ==
    [][(Detected /\ monitor.initialized) =>
           LET evs == monitor'.events
               prev == monitor.previous_snapshot
               cur == positions'
               opened == Lacking(cur, prev)
               closed_ == Lacking(prev, cur)
           IN  /\ OfType(evs, "NEW") =
                      [i \in DOMAIN opened |->
                          TradeEvent("NEW", opened[i].ticket, opened[i], NoPosition)]
               /\ OfType(evs, "CLOSED") =
                      [i \in DOMAIN closed_ |->
                          TradeEvent("CLOSED", closed_[i].ticket, NoPosition, closed_[i])]
               /\ \A i \in DOMAIN evs :
                      Rank(evs[i]) = 3 =>
                          /\ evs[i].event_type \in {"MODIFIED_SL", "MODIFIED_TP", "PARTIAL_CLOSE"}
                          /\ evs[i].master_ticket \in Keys(prev) \cap Keys(cur)
               /\ \A i, j \in DOMAIN evs : i < j => Rank(evs[i]) <= Rank(evs[j])]_vars

\* a pass that returned a NEW, a CLOSED and a modification event
C14_Witness ==
    /\ monitor.initialized
    /\ \E i, j, k \in DOMAIN monitor.events :
           /\ i < j /\ j < k
           /\ monitor.events[i].event_type = "NEW"
           /\ monitor.events[j].event_type = "CLOSED"
           /\ monitor.events[k].event_type = "MODIFIED_SL"

\* the events returned for one ticket, in the order returned
OfTicket(evs, ticket) ==
    LET is(e) == e.master_ticket = ticket /\ Rank(e) = 3 IN SelectSeq(evs, is)

\* the types of a sequence of events
Types(evs) == [i \in DOMAIN evs |-> evs[i].event_type]

\* C15: for a ticket that the previous and the current snapshot both hold,
\* detect_changes returns MODIFIED_SL exactly when the stop loss differs by
\* more than 1e-6, MODIFIED_TP exactly when the take profit does, and
\* PARTIAL_CLOSE exactly when the volume fell by more than 1e-6, at most
\* one of each and in that order, each carrying the current and the
\* previous position; a volume that rose gives no event.
C15_ModificationsOfTicket ==
    [][(Detected /\ monitor.initialized) =>
           \A ticket \in Keys(monitor.previous_snapshot) \cap Keys(positions') :
               LET was == Get(monitor.previous_snapshot, ticket)
                   now == Get(positions', ticket)
                   evs == OfTicket(monitor'.events, ticket)
               IN  /\ Types(evs) =
                          (IF Abs(now.sl - was.sl) * EpsilonsPerPoint > 1
                           THEN <<"MODIFIED_SL">> ELSE <<>>)
                          \o (IF Abs(now.tp - was.tp) * EpsilonsPerPoint > 1
                              THEN <<"MODIFIED_TP">> ELSE <<>>)
                          \o (IF (was.volume - now.volume) * EpsilonsPerVolume > 1
                              THEN <<"PARTIAL_CLOSE">> ELSE <<>>)
                   /\ \A i \in DOMAIN evs :
                          evs[i].position = now /\ evs[i].previous_position = was
                   /\ now.volume > was.volume =>
                          \A i \in DOMAIN evs : evs[i].event_type # "PARTIAL_CLOSE"]_vars

\* a pass in which the stop loss, the take profit and the volume of a
\* ticket all changed, with the three events it returned
C15_Witness ==
    /\ monitor.initialized
    /\ Types(monitor.events) = <<"MODIFIED_SL", "MODIFIED_TP", "PARTIAL_CLOSE">>
    /\ \A i \in DOMAIN monitor.events :
           /\ monitor.events[i].position.sl # monitor.events[i].previous_position.sl
           /\ monitor.events[i].position.tp # monitor.events[i].previous_position.tp
           /\ monitor.events[i].position.volume < monitor.events[i].previous_position.volume

\* C16: after every detect_changes call the baseline is the snapshot just
\* passed in, whether or not an event was returned, so a call with the
\* snapshot of the call before it returns no event.
C16_BaselineIsLastSnapshot ==
    [][Detected =>
           /\ monitor'.previous_snapshot = positions'
           /\ (monitor.initialized /\ positions' = positions) => monitor'.events = <<>>]_vars

\* a monitor that was last given two positions, holds them as its baseline
\* and answers a repeated call with no event
C16_Witness ==
    /\ monitor.initialized
    /\ Len(positions) = MaxPositions
    /\ monitor.previous_snapshot = positions
    /\ monitor.events = <<>>
    /\ detect_changes(monitor, positions) = monitor

----------------------------------------------------------------------------
(* Two monitors, each given snapshots and reset on its own, so that they   *)
(* come to a baseline by different histories.  They are given the          *)
(* positions of the tickets after the first.                               *)

TwinLists == {l \in PositionLists : \A i \in DOMAIN l : l[i].ticket # 1}

DetectFirst ==
    /\ \E current_positions \in TwinLists :
           /\ monitor' = detect_changes(monitor, current_positions)
           /\ positions' = current_positions
    /\ UNCHANGED <<mappings, file, executorVars, twin, queueVars, storeVars, workerVars>>

DetectTwin ==
    /\ \E current_positions \in TwinLists :
           twin' = detect_changes(twin, current_positions)
    /\ UNCHANGED <<mappings, file, executorVars, monitor, positions, queueVars, storeVars, workerVars>>

ResetFirst ==
    /\ monitor.initialized
    /\ monitor' = reset(monitor)
    /\ UNCHANGED <<mappings, file, executorVars, twin, positions, queueVars, storeVars, workerVars>>

ResetTwin ==
    /\ twin.initialized
    /\ twin' = reset(twin)
    /\ UNCHANGED <<mappings, file, executorVars, monitor, positions, queueVars, storeVars, workerVars>>

TwinNext ==
    \/ DetectFirst
    \/ DetectTwin
    \/ ResetFirst
    \/ ResetTwin

TwinSpec == Init /\ [][TwinNext]_vars

\* two snapshots that hold the same position under every ticket
SameMapping(a, b) ==
    /\ Keys(a) = Keys(b)
    /\ \A ticket \in Keys(a) : Get(a, ticket) = Get(b, ticket)

----------------------------------------------------------------------------
(* master_process and slave_process of main.py around event_queue.  The    *)
(* master polls its terminal, which shows the positions of the tickets the *)
(* executor knows, and puts the events of a pass on the queue one by one;  *)
(* the slave takes one dict at a time, rebuilds the event and hands it to  *)
(* copier.process_event before it takes the next.                          *)

MaxPolls == 4

SystemLists == {l \in PositionLists : \A i \in DOMAIN l : l[i].ticket \in Tickets}

_position_to_dict(pos) ==
    [ticket |-> pos.ticket, symbol |-> pos.symbol, type |-> pos.type,
     volume |-> pos.volume, price_open |-> pos.price_open, sl |-> pos.sl,
     tp |-> pos.tp]

\* the dict master_process builds from an event; None is NoPosition
event_data(event) ==
    [event_type |-> event.event_type, master_ticket |-> event.master_ticket,
     position |-> IF event.position # NoPosition
                  THEN _position_to_dict(event.position) ELSE NoPosition,
     previous_position |-> IF event.previous_position # NoPosition
                           THEN _position_to_dict(event.previous_position)
                           ELSE NoPosition]

\* TradePosition(ticket=p["ticket"], ...)
position_of(p) ==
    [ticket |-> p.ticket, symbol |-> p.symbol, type |-> p.type,
     volume |-> p.volume, price_open |-> p.price_open, sl |-> p.sl, tp |-> p.tp]

\* data.get(key) of a dict written as a record: a key the dict lacks gives
\* None, as does a key that holds None
get_position(data, key) ==
    IF key \in DOMAIN data THEN data[key] ELSE NoPosition

\* does building the event raise: a KeyError for event_type, master_ticket
\* or a field of a position that is there, a ValueError for an event_type
\* that is no TradeEventType
Undecodable(data) ==
    \/ "event_type" \notin DOMAIN data
    \/ data.event_type \notin {"NEW", "CLOSED", "MODIFIED_SL", "MODIFIED_TP", "PARTIAL_CLOSE"}
    \/ "master_ticket" \notin DOMAIN data
    \/ \E key \in {"position", "previous_position"} :
           /\ get_position(data, key) # NoPosition
           /\ DOMAIN get_position(data, key) # DOMAIN NoPosition

\* _dict_to_event dropping every dict that lacks one of its four keys
_dict_to_event_strict(data) ==
    IF Undecodable(data) \/ DOMAIN data # {"event_type", "master_ticket", "position", "previous_position"}
    THEN NoEvent
    ELSE TradeEvent(data.event_type, data.master_ticket,
                    IF get_position(data, "position") # NoPosition
                    THEN position_of(data.position) ELSE NoPosition,
                    IF get_position(data, "previous_position") # NoPosition
                    THEN position_of(data.previous_position) ELSE NoPosition)

\* None, written NoEvent, for a dict that raises while the event is built
_dict_to_event(data) ==
    IF Undecodable(data)
    THEN NoEvent
    ELSE TradeEvent(data.event_type, data.master_ticket,
                    IF get_position(data, "position") # NoPosition
                    THEN position_of(data.position) ELSE NoPosition,
                    IF get_position(data, "previous_position") # NoPosition
                    THEN position_of(data.previous_position) ELSE NoPosition)

\* event_queue.put taking the place at the head of the queue
put_first(q, item) == <<item>> \o q

\* event_queue.put and event_queue.get of a queue with one producer
put(q, item) == Append(q, item)

get(q) == [item |-> Head(q), queue |-> Tail(q)]

\* get_positions and detect_changes of one pass of master_process
Poll ==
    /\ outbox = <<>>
    /\ polls < MaxPolls
    /\ \E current_positions \in SystemLists :
           /\ positions' = current_positions
           /\ monitor' = detect_changes(monitor, current_positions)
    /\ polls' = polls + 1
    /\ outbox' = monitor'.events
    /\ emitted' = emitted \o monitor'.events
    /\ UNCHANGED <<mappings, file, executorVars, twin, queue, received, processed, storeVars, workerVars>>

\* one turn of the for loop of that pass
Put ==
    /\ outbox # <<>>
    /\ queue' = put(queue, event_data(Head(outbox)))
    /\ outbox' = Tail(outbox)
    /\ UNCHANGED <<mappings, file, executorVars, monitorVars, polls, received, emitted, processed, storeVars, workerVars>>

\* event_queue.get and _dict_to_event of slave_process; a dict that is no
\* event is dropped
Take ==
    /\ received = NoEvent
    /\ queue # <<>>
    /\ received' = _dict_to_event(get(queue).item)
    /\ queue' = get(queue).queue
    /\ UNCHANGED <<mappings, file, executorVars, monitorVars, polls, outbox, emitted, processed, storeVars, workerVars>>

\* copier.process_event of the event taken
Processed(fault) ==
    /\ received # NoEvent
    /\ Process(received, TRUE, fault, "ok")
    /\ processed' = Append(processed, received)
    /\ received' = NoEvent
    /\ UNCHANGED <<monitorVars, polls, outbox, queue, emitted, storeVars, workerVars>>

\* the terminal call of the handler succeeds, or order_send returns None
Execute ==
    \E fault \in {"none", "send_none"} :
        Processed(fault)

SystemNext ==
    \/ Poll
    \/ Put
    \/ Take
    \/ Execute

SystemSpec == Init /\ [][SystemNext]_vars

\* the events the slave holds or will take, in the order it takes them
Pending ==
    (IF received = NoEvent THEN <<>> ELSE <<received>>)
    \o [i \in DOMAIN queue |-> _dict_to_event(queue[i])]

\* C18: the events reach copier.process_event in the order detect_changes
\* returned them, within a pass and from pass to pass: the events processed,
\* then the one in the slave's hand, then those on the queue, then those of
\* the current pass not yet put, are at every moment the events emitted, in
\* order, each once; the slave holds at most one event, and the one
\* processed last is the one the engine handled last.
C18_DeliveredInOrder ==
    /\ emitted = processed \o Pending \o outbox
    /\ processed # <<>> => lastEvent = processed[Len(processed)]
    /\ processed = <<>> => lastEvent = NoEvent

\* the three events of one pass processed after the event of the pass
\* before it
C18_Witness ==
    /\ Len(processed) = 4
    /\ Types(processed) = <<"NEW", "MODIFIED_SL", "MODIFIED_TP", "PARTIAL_CLOSE">>
    /\ processed = emitted

----------------------------------------------------------------------------
(* The mapping store on its own: the mutators of PositionTracker called    *)
(* with a disk that may fail, an executor process that may be killed       *)
(* between two calls or within one, and its restart, which builds a new    *)
(* tracker and calls load_from_file.  Mappings of MaxStoreTicket tickets   *)
(* are added and removed; the updates are of the tickets in Tickets.       *)

MaxStoreTicket == 2

StoreTickets == 1..MaxStoreTicket

Disks == {"ok", "open_fails", "write_fails"}

StoreMappings ==
    {PositionMapping(x[1], 55500 + x[1], TicketSymbol(x[1]), direction(TicketType(x[1])),
                     Vol(MaxVolume), Vol(MaxVolume), TicketPriceOpen(x[1]), FillPrice,
                     x[2], 0, x[2], 0, Now) : x \in StoreTickets \X {0}}

\* what a new tracker holds after load_from_file of file f
Stored(f) == load_from_file(Tracker(<<>>, f)).mappings

\* A tracker call that leaves tracker trk and returns `returned`.  saves:
\* the times it reached save_to_file; disk: how the last of these writes
\* ended.  dies: the process is killed within the call, and disk then tells
\* how far that write had come: not begun ("open_fails"), begun
\* ("write_fails") or done ("ok").
Mutate(op, trk, saves, disk, dies, returned) ==
    /\ process # "down"
    /\ mappings' = IF dies THEN <<>> ELSE trk.mappings
    /\ file' = trk.file
    /\ last_call' = TrackerCall(op, IF saves > 0 THEN disk ELSE "",
                                IF saves > 0 THEN disk ELSE last_call.attempt,
                                mappings, trk.mappings, Stored(file) = mappings,
                                saves, returned)
    /\ process' = IF dies THEN "down" ELSE "up"
    /\ UNCHANGED <<executorVars, monitorVars, queueVars, workerVars>>

AddMapping ==
    \E mapping \in StoreMappings, disk \in Disks, dies \in BOOLEAN :
        Mutate("add_mapping", add_mapping(Tracker(mappings, file), mapping, disk),
               1, disk, dies, Orphaned({}, {}))

RemoveMapping ==
    \E master_ticket \in StoreTickets, disk \in Disks, dies \in BOOLEAN :
        Mutate("remove_mapping",
               remove_mapping(Tracker(mappings, file), master_ticket, disk),
               IF master_ticket \in DOMAIN mappings THEN 1 ELSE 0, disk, dies,
               Orphaned({}, {}))

UpdateSlaveSlTp ==
    \E master_ticket \in Tickets, sl \in {None, MaxPrice}, tp \in {None, MaxPrice},
       disk \in Disks, dies \in BOOLEAN :
        Mutate("update_slave_sl_tp",
               update_slave_sl_tp(Tracker(mappings, file), master_ticket, sl, tp, disk),
               IF master_ticket \in DOMAIN mappings THEN 1 ELSE 0, disk, dies,
               Orphaned({}, {}))

UpdateSlaveVolume ==
    \E master_ticket \in Tickets, disk \in Disks, dies \in BOOLEAN :
        Mutate("update_slave_volume",
               update_slave_volume(Tracker(mappings, file), master_ticket, Vol(1), disk),
               IF master_ticket \in DOMAIN mappings THEN 1 ELSE 0, disk, dies,
               Orphaned({}, {}))

\* cleanup_orphaned of a list of up to MaxStoreTicket tickets, each of its
\* writes ending in a way of its own
CleanupOrphaned ==
    \E orphaned_master_tickets \in UNION {[1..n -> StoreTickets] : n \in 0..MaxStoreTicket},
       disks \in [1..MaxStoreTicket -> Disks], dies \in BOOLEAN :
        LET c == cleanup_orphaned(Tracker(mappings, file), orphaned_master_tickets,
                                  disks, Len(orphaned_master_tickets))
        IN  Mutate("cleanup_orphaned", c.tracker, c.saves, c.disk, dies, Orphaned({}, {}))

\* sync_check with the tickets the two terminals show
SyncCheck ==
    \E master_tickets \in SUBSET StoreTickets,
       slave_tickets \in SUBSET {55500 + t : t \in StoreTickets} :
        Mutate("sync_check", Tracker(mappings, file), 0, "", FALSE,
               sync_check(Tracker(mappings, file), master_tickets, slave_tickets))

\* the process is killed between two calls
Crash ==
    /\ process # "down"
    /\ process' = "down"
    /\ mappings' = <<>>
    /\ UNCHANGED <<file, last_call, executorVars, monitorVars, queueVars, workerVars>>

\* PositionTracker(...) and tracker.load_from_file() of slave_process
Restart ==
    /\ process = "down"
    /\ process' = "restarted"
    /\ mappings' = load_from_file(Tracker(<<>>, file)).mappings
    /\ UNCHANGED <<file, last_call, executorVars, monitorVars, queueVars, workerVars>>

StoreNext ==
    \/ AddMapping
    \/ RemoveMapping
    \/ UpdateSlaveSlTp
    \/ UpdateSlaveVolume
    \/ CleanupOrphaned
    \/ SyncCheck
    \/ Crash
    \/ Restart

StoreSpec == Init /\ [][StoreNext]_vars

\* C19: right after a mutating call whose write of the file succeeded (add,
\* remove of a ticket held, SL/TP update, volume update) the file holds
\* exactly the mappings in memory, every field equal; the file and the
\* memory of a running executor differ only after a write that failed.
C19_FileEqualsMemoryAfterSave ==
    process # "down" =>
        /\ last_call.disk = "ok" =>
               /\ file = [exists |-> TRUE, torn |-> FALSE, data |-> mappings]
               /\ Stored(file) = mappings
        /\ Stored(file) # mappings => last_call.attempt \in {"open_fails", "write_fails"}

\* a store of two mappings right after a volume update that was written
C19_Witness ==
    /\ process = "up"
    /\ last_call.op = "update_slave_volume"
    /\ last_call.disk = "ok"
    /\ last_call.before # last_call.after
    /\ mappings = last_call.after
    /\ Cardinality(DOMAIN mappings) = MaxStoreTicket
    /\ file.data = mappings

\* C20: when the executor is killed at any point, also within a write of
\* the file, and the file held the mappings in memory before the most
\* recent mutating call, the mappings loaded at the restart are those in
\* memory just before or just after that call.
C20_RestartLosesAtMostLastMutation ==
    (process = "restarted" /\ last_call.persisted) =>
        mappings \in {last_call.before, last_call.after}

C22_FailedSaveKeepsMemory ==
    LET trk == Tracker(mappings, file)
    IN  /\ \A disk \in Disks \ {"ok"} :
               /\ \A mapping \in StoreMappings :
                      LET failed == add_mapping(trk, mapping, disk)
                      IN  /\ failed.mappings = add_mapping(trk, mapping, "ok").mappings
                          /\ has_mapping(failed, mapping.master_ticket)
                          /\ \A master_ticket \in DOMAIN failed.mappings :
                                 LET next == update_slave_volume(failed, master_ticket, Vol(1), "ok")
                                 IN  /\ Stored(next.file) = next.mappings
                                     /\ mapping.master_ticket \in DOMAIN Stored(next.file)
               /\ \A master_ticket \in StoreTickets :
                      LET failed == remove_mapping(trk, master_ticket, disk)
                      IN  /\ failed.mappings = remove_mapping(trk, master_ticket, "ok").mappings
                          /\ ~has_mapping(failed, master_ticket)
                          /\ \A mapping \in StoreMappings :
                                 LET next == add_mapping(failed, mapping, "ok")
                                 IN  Stored(next.file) = next.mappings
        /\ (process = "up" /\ last_call.saves > 0) => mappings = last_call.after
        /\ (process = "up" /\ last_call.disk = "ok" /\ ~last_call.persisted) =>
               Stored(file) = mappings

\* a mapping added while the file was behind the memory, the write of the
\* call brought the file level with both mappings
C22_Witness ==
    /\ process = "up"
    /\ last_call.op = "add_mapping"
    /\ last_call.disk = "ok"
    /\ ~last_call.persisted
    /\ last_call.before # <<>>
    /\ Cardinality(DOMAIN mappings) = MaxStoreTicket
    /\ Stored(file) = mappings

\* C23: cleanup_orphaned removes every ticket of its list that the store
\* holds, and a call that removed any mapping has called save_to_file once,
\* however many it removed.
C23_CleanupPersistsOnce ==
    (last_call.op = "cleanup_orphaned" /\ last_call.before # last_call.after) =>
        /\ DOMAIN last_call.after \subseteq DOMAIN last_call.before
        /\ last_call.saves = 1

\* C24: sync_check leaves the mappings in memory and the file as they were,
\* writes nothing, and returns under orphaned_master the master tickets of
\* the mappings whose master ticket is not among the live master tickets,
\* and under orphaned_slave the master tickets of the mappings whose slave
\* ticket is not among the live slave tickets.
C24_SyncCheckIsPure ==
    [][(last_call'.op = "sync_check" /\ process' = "up") =>
          /\ mappings' = mappings
          /\ file' = file
          /\ last_call'.saves = 0
          /\ last_call'.returned.orphaned_master \subseteq DOMAIN mappings
          /\ last_call'.returned.orphaned_slave \subseteq DOMAIN mappings
          /\ \A master_tickets \in SUBSET StoreTickets, slave_tickets \in SUBSET {55500 + t : t \in StoreTickets} :
                 LET orphaned == sync_check(Tracker(mappings, file), master_tickets, slave_tickets)
                 IN  /\ orphaned.orphaned_master = DOMAIN mappings \ master_tickets
                     /\ \A t \in StoreTickets :
                            t \in orphaned.orphaned_slave <=>
                                (t \in DOMAIN mappings /\ mappings[t].slave_ticket \notin slave_tickets)]_vars

\* a store of two mappings after a sync_check that found the master of one
\* and the slave of the other gone
C24_Witness ==
    /\ process = "up"
    /\ last_call.op = "sync_check"
    /\ Cardinality(DOMAIN mappings) = MaxStoreTicket
    /\ last_call.returned = Orphaned({1}, {2})
    /\ mappings = last_call.before
    /\ Stored(file) = mappings

----------------------------------------------------------------------------
(* The two loops of main.py in full: the first connect of each process,    *)
(* the stop flag read at the top of every iteration, the reconnect branch, *)
(* the exceptions the try of an iteration catches, and the calls made      *)
(* after the loop.  The terminals may stop answering at any time, main may *)
(* set the stop flag at any time, and the queue may be handed dicts that   *)
(* master_process did not build.                                           *)

MaxPasses == 2
MaxForeign == 2

\* what the master terminal shows in these loops: nothing, the position of
\* ticket 1, or that position with both stops moved
WorkerLists ==
    {<<>>, <<[Quiet(1) EXCEPT !.volume = MaxMasterVolume]>>,
     <<[Quiet(1) EXCEPT !.volume = MaxMasterVolume, !.sl = MaxPrice, !.tp = MaxPrice]>>}

\* dicts that are not what master_process builds: an event type that does
\* not exist, no master_ticket, a position without its fields, and events
\* without the keys of their positions
ForeignRecords ==
    {[event_type |-> "UNKNOWN", master_ticket |-> 1, position |-> NoPosition,
      previous_position |-> NoPosition],
     [event_type |-> "CLOSED", position |-> NoPosition,
      previous_position |-> NoPosition],
     [event_type |-> "NEW", master_ticket |-> 1, position |-> [ticket |-> 1],
      previous_position |-> NoPosition],
     [event_type |-> "CLOSED", master_ticket |-> 1],
     [event_type |-> "MODIFIED_SL", master_ticket |-> 1],
     [event_type |-> "PARTIAL_CLOSE", master_ticket |-> 1,
      position |-> _position_to_dict(Quiet(1))]}

\* started with a process that enters its loop whatever the connect gave
started_whatever_the_connect(w, ok) ==
    [connect(w, ok) EXCEPT !.pc = "loop", !.did = IF ok THEN "connected" ELSE "connect_failed"]

\* lines 43-46 and 113-116: the first connect of a process; a failure sets
\* the stop flag and the process returns
started(w, ok) ==
    IF ok THEN [connect(w, TRUE) EXCEPT !.pc = "loop", !.did = "connected"]
    ELSE [connect(w, FALSE) EXCEPT !.pc = "exited", !.did = "connect_failed"]

\* the end of a process whose loop was ended by the stop flag, without the
\* disconnect
stopped_without_disconnect(w, made) ==
    [w EXCEPT !.pc = "exited", !.did = "stopped", !.exit = made]

\* lines 84 and 152-153: the end of a process whose loop was ended by the
\* stop flag, after the calls it makes on its way out
stopped(w, made) ==
    [disconnect(w) EXCEPT !.pc = "exited", !.did = "stopped", !.exit = made]

MasterConnect ==
    /\ master.pc = "connect"
    /\ \E ok \in BOOLEAN :
           /\ master' = started(master, ok)
           /\ stop_event' = (stop_event \/ ~ok)
    /\ UNCHANGED <<mappings, file, executorVars, monitorVars, queueVars, storeVars, slave, main>>

\* One iteration of the loop of master_process up to the for loop, or the
\* end of the loop.  ok: does a connect of this iteration succeed.  raises:
\* does get_positions raise.  A terminal that does not answer gives
\* positions_get() = None, and get_positions then returns [].
MasterLoop ==
    /\ master.pc = "loop"
    /\ outbox = <<>>
    /\ stop_event \/ polls < MaxPasses
    /\ \E ok \in BOOLEAN, raises \in BOOLEAN, current_positions \in WorkerLists :
           IF stop_event
           THEN /\ master' = stopped(master, <<"disconnect">>)
                /\ UNCHANGED <<monitorVars, polls, outbox, emitted>>
           ELSE IF ~master.connected /\ ~ok
           THEN /\ master' = [connect(master, FALSE) EXCEPT !.did = "connect_failed"]
                /\ polls' = polls + 1
                /\ UNCHANGED <<monitorVars, outbox, emitted>>
           ELSE IF raises
           THEN /\ master' = [(IF master.connected THEN master ELSE connect(master, TRUE))
                                 EXCEPT !.did = "raised"]
                /\ polls' = polls + 1
                /\ UNCHANGED <<monitorVars, outbox, emitted>>
           ELSE LET m == IF master.connected THEN master ELSE connect(master, TRUE)
                    seen == IF m.session THEN current_positions ELSE <<>>
                IN  /\ master' = [m EXCEPT !.did = IF master.connected THEN "polled"
                                                   ELSE "reconnected"]
                    /\ polls' = polls + 1
                    /\ positions' = seen
                    /\ monitor' = detect_changes(monitor, seen)
                    /\ outbox' = monitor'.events
                    /\ emitted' = emitted \o monitor'.events
                    /\ twin' = twin
    /\ UNCHANGED <<mappings, file, executorVars, queue, received, processed, storeVars, stop_event, slave, main>>

\* One turn of the for loop: the dict is built and put, or an exception
\* ends the iteration and the events not yet put are given up
MasterPut ==
    /\ master.pc = "loop"
    /\ outbox # <<>>
    /\ \E raises \in BOOLEAN :
           IF raises
           THEN /\ outbox' = <<>>
                /\ master' = [master EXCEPT !.did = "raised"]
                /\ queue' = queue
           ELSE /\ outbox' = Tail(outbox)
                /\ queue' = put(queue, event_data(Head(outbox)))
                /\ master' = [master EXCEPT !.did = "put",
                                            !.passed = Append(@, event_data(Head(outbox)))]
    /\ UNCHANGED <<mappings, file, executorVars, monitorVars, polls, received, emitted, processed, storeVars, stop_event, slave, main>>

\* tracker.load_from_file() and the first connect of slave_process
SlaveConnect ==
    /\ slave.pc = "connect"
    /\ mappings' = load_from_file(Tracker(mappings, file)).mappings
    /\ \E ok \in BOOLEAN :
           /\ slave' = started(slave, ok)
           /\ stop_event' = (stop_event \/ ~ok)
    /\ UNCHANGED <<file, executorVars, monitorVars, queueVars, storeVars, master, main>>

\* One iteration of the loop of slave_process up to copier.process_event,
\* or the end of the loop with save_to_file and disconnect.  An empty queue
\* ends the iteration after the timeout, and so does a dict that
\* _dict_to_event turns into None.
SlaveLoop ==
    /\ slave.pc = "loop"
    /\ received = NoEvent
    /\ \E ok \in BOOLEAN :
           IF stop_event
           THEN /\ file' = save_to_file(Tracker(mappings, file), "ok").file
                /\ slave' = stopped(slave, <<"save_to_file", "disconnect">>)
                /\ UNCHANGED <<queue, received>>
           ELSE IF ~slave.connected /\ ~ok
           THEN /\ slave' = [connect(slave, FALSE) EXCEPT !.did = "connect_failed"]
                /\ UNCHANGED <<file, queue, received>>
           ELSE LET w == IF slave.connected THEN slave ELSE connect(slave, TRUE)
                IN  IF queue = <<>>
                    THEN /\ slave' = [w EXCEPT !.did = "timeout"]
                         /\ UNCHANGED <<file, queue, received>>
                    ELSE /\ received' = _dict_to_event(get(queue).item)
                         /\ queue' = get(queue).queue
                         /\ slave' = [w EXCEPT !.did = IF received' = NoEvent THEN "dropped"
                                                       ELSE "received"]
                         /\ file' = file
    /\ UNCHANGED <<mappings, executorVars, monitorVars, polls, outbox, emitted, processed, storeVars, stop_event, master, main>>

\* Executed with an exception of a handler ending the process
Executed_unless_raised(fault) ==
    /\ slave.pc = "loop"
    /\ received # NoEvent
    /\ Process(received, TRUE, fault, "ok")
    /\ processed' = Append(processed, received)
    /\ received' = NoEvent
    /\ slave' = IF outcome' = "raised" THEN [slave EXCEPT !.pc = "exited", !.did = "raised"]
                ELSE [slave EXCEPT !.did = "executed"]
    /\ UNCHANGED <<monitorVars, polls, outbox, queue, emitted, storeVars, stop_event, master, main>>

\* copier.process_event of the event taken, with a terminal call that may
\* fail or raise; process_event catches what a handler raises
Executed(fault) ==
    /\ slave.pc = "loop"
    /\ received # NoEvent
    /\ Process(received, TRUE, fault, "ok")
    /\ processed' = Append(processed, received)
    /\ received' = NoEvent
    /\ slave' = [slave EXCEPT !.did = "executed"]
    /\ UNCHANGED <<monitorVars, polls, outbox, queue, emitted, storeVars, stop_event, master, main>>

SlaveExecute ==
    \E fault \in {"none", "no_tick", "send_none"} :
        Executed(fault)

\* stop_event.set() of main: the signal handler, or the end of its wait
SetStop ==
    /\ ~stop_event
    /\ stop_event' = TRUE
    /\ UNCHANGED <<mappings, file, executorVars, monitorVars, queueVars, storeVars, master, slave, main>>

\* the terminal of one of the processes stops answering
SessionLost ==
    /\ \/ /\ master.pc = "loop" /\ master.session
          /\ master' = [master EXCEPT !.session = FALSE]
          /\ slave' = slave
       \/ /\ slave.pc = "loop" /\ slave.session
          /\ slave' = [slave EXCEPT !.session = FALSE]
          /\ master' = master
    /\ UNCHANGED <<mappings, file, executorVars, monitorVars, queueVars, storeVars, stop_event, main>>

\* a dict of another make appears on the queue
PutForeign ==
    /\ queue = <<>>
    /\ Len(processed) < MaxForeign
    /\ \E item \in ForeignRecords : queue' = put(queue, item)
    /\ UNCHANGED <<mappings, file, executorVars, monitorVars, polls, outbox, received, emitted, processed, storeVars, workerVars>>

WorkerNext ==
    \/ MasterConnect
    \/ MasterLoop
    \/ MasterPut
    \/ SlaveConnect
    \/ SlaveLoop
    \/ SlaveExecute
    \/ SetStop
    \/ SessionLost
    \/ PutForeign

WorkerSpec == Init /\ [][WorkerNext]_vars

\* the same with each process taking its next step sooner or later: a call
\* of the terminal that was begun returns
WorkerLiveSpec ==
    /\ WorkerSpec
    /\ WF_vars(MasterConnect \/ MasterLoop \/ MasterPut)
    /\ WF_vars(SlaveConnect \/ SlaveLoop \/ SlaveExecute)

\* C26: once the stop flag is set, both processes come to their end.  A
\* process that left its loop has made its calls on the way out: the slave
\* save_to_file and then disconnect, the file holding its mappings, the
\* master disconnect.  After the slave has ended no event is processed any
\* more and nothing is taken from the queue.
C26_StopEndsBothLoops ==
    /\ stop_event ~> (master.pc = "exited" /\ slave.pc = "exited")
    /\ []((slave.pc = "exited" /\ slave.did = "stopped") =>
              /\ slave.exit = <<"save_to_file", "disconnect">>
              /\ ~slave.connected
              /\ Stored(file) = mappings)
    /\ []((master.pc = "exited" /\ master.did = "stopped") =>
              /\ master.exit = <<"disconnect">>
              /\ ~master.connected)
    /\ [][slave.pc = "exited" =>
              /\ processed' = processed
              /\ received' = received
              /\ mappings' = mappings
              /\ Len(queue') >= Len(queue)]_vars

\* both processes ended by the stop flag, the slave with a mapping it has
\* saved and with an event left on the queue
C26_Witness ==
    /\ stop_event
    /\ master.pc = "exited" /\ master.did = "stopped"
    /\ slave.pc = "exited" /\ slave.did = "stopped"
    /\ queue # <<>>
    /\ mappings # <<>>
    /\ file.data = mappings

\* C25: whatever the type of the event taken and whatever the terminal call
\* of its handler does, an exception raised and an event without its
\* positions included, process_event returns: the slave is in its loop with
\* no event in hand, the stop flag is as it was, and the handling ended as
\* a success, a failure, a skip or an exception caught.
C25_ProcessEventNeverRaises ==
    [][processed' # processed =>
          /\ lastEvent' = received
          /\ outcome' \in {"success", "failed", "skipped", "raised"}
          /\ slave'.pc = "loop"
          /\ slave'.did = "executed"
          /\ received' = NoEvent
          /\ stop_event' = stop_event
          /\ (outcome' = "raised" => mappings' = mappings)]_vars

\* the slave has taken the next dict after a MODIFIED_SL event without
\* position, for a ticket it holds, raised in its handler
C25_Witness ==
    /\ lastEvent.event_type = "MODIFIED_SL"
    /\ lastEvent.position = NoPosition
    /\ outcome = "raised"
    /\ mappings # <<>>
    /\ slave.pc = "loop"
    /\ slave.did \in {"received", "dropped"}

\* what a step of a process may do with its loop and the stop flag
LoopEntryAndExit ==
    /\ (master.pc = "connect" /\ master'.pc = "loop") =>
          (master'.connected /\ stop_event' = stop_event)
    /\ (slave.pc = "connect" /\ slave'.pc = "loop") =>
          (slave'.connected /\ stop_event' = stop_event)
    /\ (master.pc = "loop" /\ master'.pc = "exited") => (stop_event /\ stop_event')
    /\ (slave.pc = "loop" /\ slave'.pc = "exited") => (stop_event /\ stop_event')
    /\ (master.pc = "loop" /\ master.session /\ ~master'.session /\ ~stop_event) =>
          (~stop_event' /\ master'.pc = "loop")
    /\ (slave.pc = "loop" /\ slave.session /\ ~slave'.session /\ ~stop_event) =>
          (~stop_event' /\ slave'.pc = "loop")
    /\ (master'.did = "connect_failed" /\ master.pc = "loop") =>
          (stop_event' = stop_event /\ master'.pc = "loop")

\* C27: a process whose first connect fails sets the stop flag and returns
\* without a pass of its loop, and the other process then ends too; a
\* process enters its loop only connected; in the loop a terminal that
\* stops answering and a connect that fails leave the stop flag as it was,
\* and the loop is left only when the stop flag is set.
C27_OnlyFirstConnectIsFatal ==
    /\ []((master.pc = "exited" /\ master.did = "connect_failed") =>
              stop_event /\ master.exit = <<>> /\ master.passed = <<>> /\ ~monitor.initialized)
    /\ []((slave.pc = "exited" /\ slave.did = "connect_failed") =>
              stop_event /\ slave.exit = <<>> /\ processed = <<>>)
    /\ (master.pc = "exited" \/ slave.pc = "exited")
          ~> (master.pc = "exited" /\ slave.pc = "exited")
    /\ [][LoopEntryAndExit]_vars

\* the master could not connect and has set the stop flag; the slave, which
\* was in its loop, has left it, saved and disconnected
C27_Witness ==
    /\ master.pc = "exited" /\ master.did = "connect_failed"
    /\ slave.pc = "exited" /\ slave.did = "stopped"
    /\ slave.exit = <<"save_to_file", "disconnect">>
    /\ stop_event

\* C28: an iteration of master_process begun while its terminal does not
\* answer calls connect, as often as it takes, and an iteration in which the
\* connect fails leaves the monitor, the mappings, the file and the queue
\* as they were.
C28_RetriesWhileDisconnected ==
    [][/\ (polls' # polls /\ ~master.session) =>
             master'.did \in {"connect_failed", "reconnected"}
       /\ (polls' # polls /\ master'.did = "connect_failed") =>
             UNCHANGED <<monitor, mappings, file, queue>>]_vars

\* a dict without event_type or master_ticket, with an event_type that is
\* none of the five, or with a position that lacks one of its fields
LacksRequired(data) ==
    \/ {"event_type", "master_ticket"} \ DOMAIN data # {}
    \/ /\ "event_type" \in DOMAIN data
       /\ data.event_type \notin {"NEW", "CLOSED", "MODIFIED_SL", "MODIFIED_TP", "PARTIAL_CLOSE"}
    \/ \E key \in {"position", "previous_position"} \cap DOMAIN data :
           /\ data[key] # NoPosition
           /\ {"ticket", "symbol", "type", "volume", "price_open", "sl", "tp"} \ DOMAIN data[key] # {}

\* a dict that lacks any key at all, or has an unknown event type
Malformed(data) ==
    \/ LacksRequired(data)
    \/ {"event_type", "master_ticket", "position", "previous_position"} \ DOMAIN data # {}

\* the slave drops the dict at the head of the queue
Dropped ==
    /\ received' = NoEvent
    /\ slave'.did = "dropped"
    /\ slave'.pc = "loop"
    /\ UNCHANGED <<mappings, file, terminal, calls, sent, processed, stop_event>>

\* C29 as stated: a dict with an unknown event type or without one of its
\* keys is dropped when the slave takes it: no event is built, no call of
\* the terminal is made, the mappings are as they were, and the slave is in
\* its loop to take the next dict.
C29_MalformedRecordDropped ==
    [][(Len(queue') < Len(queue) /\ Malformed(Head(queue))) => Dropped]_vars

\* C29 as the code has it: a dict is dropped so exactly when it has no
\* event_type or master_ticket, an event type that is none of the five, or
\* a position lacking a field; a dict that only lacks the key position or
\* previous_position becomes an event without that position and is handed
\* to process_event.
C29_UndecodableRecordDropped ==
    [][Len(queue') < Len(queue) =>
          IF LacksRequired(Head(queue))
          THEN Dropped
          ELSE /\ received' # NoEvent
               /\ received'.event_type = Head(queue).event_type
               /\ received'.master_ticket = Head(queue).master_ticket
               /\ slave'.did = "received"]_vars

\* the slave, holding a mapping, has just dropped a dict, and the next dict
\* is on the queue
C29_Witness ==
    /\ slave.pc = "loop"
    /\ slave.did = "dropped"
    /\ received = NoEvent
    /\ mappings # <<>>
    /\ queue # <<>>

\* C30: every event a pass of detect_changes returned is put on the queue
\* once and in order before the next pass: the dicts put so far, followed by
\* those of the events of the current pass not yet put, are at every moment
\* the dicts of the events returned so far, also after an exception has
\* ended an iteration.
C30_EveryEventEnqueued ==
    [i \in DOMAIN emitted |-> event_data(emitted[i])]
        = master.passed \o [i \in DOMAIN outbox |-> event_data(outbox[i])]

\* C31: the slave takes a dict from the queue only with a terminal that
\* answers: whenever the queue is shortened, the session of the slave is up
\* at the moment of the get, the connect of that iteration included.
C31_NoTakeWhileDisconnected ==
    [][Len(queue') < Len(queue) => slave'.session]_vars

\* a pass of detect_changes that is not the first and is given no position
EmptyRead == polls' # polls /\ monitor.initialized /\ positions' = <<>>

\* process_event of a CLOSED event whose ticket has a mapping
ClosesMapped ==
    /\ processed' # processed
    /\ received.event_type = "CLOSED"
    /\ received.master_ticket \in DOMAIN mappings

EmptyReadCloses ==
    /\ EmptyRead =>
          /\ outbox' = [i \in DOMAIN monitor.previous_snapshot |->
                           TradeEvent("CLOSED", monitor.previous_snapshot[i].ticket,
                                      NoPosition, monitor.previous_snapshot[i])]
          /\ monitor'.previous_snapshot = <<>>
    /\ ClosesMapped =>
          calls' = <<Call("close_position", mappings[received.master_ticket].slave_ticket,
                          "", None, None, None, None)>>

\* C32: a pass that is not the first and reads an empty list of positions
\* returns one CLOSED event for every ticket of the baseline, in the order
\* of the baseline, each with the position the baseline held, and leaves
\* the baseline empty; and a CLOSED event whose ticket has a mapping makes
\* the slave call close_position for the mapped ticket.
C32_EmptyReadClosesEverything == [][EmptyReadCloses]_vars

\* the master showed a position that was copied, then an empty list: the
\* CLOSED event has been processed and the copy is closed
C32_Witness ==
    /\ positions = <<>>
    /\ monitor.initialized /\ monitor.previous_snapshot = <<>>
    /\ Len(emitted) = 2 /\ emitted[2].event_type = "CLOSED"
    /\ lastEvent = emitted[2]
    /\ Len(calls) = 1 /\ calls[1].op = "close_position"
    /\ outcome = "success"
    /\ mappings = <<>> /\ terminal = <<>>

\* the CLOSED events of ticket t among evs
ClosedOf(evs, t) ==
    {i \in DOMAIN evs : evs[i].event_type = "CLOSED" /\ evs[i].master_ticket = t}

\* ticket t has a mapping, the master no longer shows it, and no CLOSED
\* event for it is on its way to the slave
Stranded(t) ==
    /\ t \in DOMAIN mappings
    /\ monitor.initialized
    /\ t \notin Keys(positions)
    /\ ClosedOf(outbox, t) = {}
    /\ \A i \in DOMAIN queue :
           ~(queue[i].event_type = "CLOSED" /\ queue[i].master_ticket = t)
    /\ ~(received.event_type = "CLOSED" /\ received.master_ticket = t)

OneClosedPerDisappearance ==
    \A t \in Tickets :
        /\ polls' # polls =>
              Cardinality(ClosedOf(outbox', t))
                  = IF monitor.initialized /\ t \in Keys(positions) /\ t \notin Keys(positions')
                    THEN 1 ELSE 0
        /\ Stranded(t) =>
              /\ t \in DOMAIN mappings' /\ mappings'[t].slave_ticket = mappings[t].slave_ticket
              /\ processed' # processed =>
                    \A i \in DOMAIN calls' : calls'[i].op # "close_position"
              /\ t \notin Keys(positions') => Stranded(t)'

\* C33: a pass returns a CLOSED event for a ticket exactly when the ticket
\* was in the read before it and is not in this one, and then one.  Once
\* the CLOSED event of a ticket has been processed with its mapping kept,
\* and as long as the master does not show the ticket again, no later pass
\* returns a CLOSED event for it, the mapping stays in the store and no
\* step calls close_position again.
C33_OneClosedPerDisappearance == [][OneClosedPerDisappearance]_vars

\* the close of the copy of ticket 1 failed; the master showed no position
\* in the pass after it either; the mapping and the copy are still there
\* and nothing is on its way
C33_Witness ==
    /\ Stranded(1)
    /\ lastEvent.event_type = "CLOSED" /\ outcome = "failed"
    /\ polls = MaxPolls
    /\ Len(emitted) = 2 /\ Len(processed) = 2
    /\ mappings[1].slave_ticket \in DOMAIN terminal

\* the events of ticket t among evs, in their order
OfMaster(evs, t) ==
    LET of(e) == e.master_ticket = t IN SelectSeq(evs, of)

HasNew(evs, t) ==
    \E i \in DOMAIN evs : evs[i].event_type = "NEW" /\ evs[i].master_ticket = t

\* ticket t was open in the first snapshot of this run: no pass has said
\* anything about it and it is in the baseline, or the first thing a pass
\* said about it was not NEW
InFirstSnapshot(t) ==
    /\ monitor.initialized
    /\ IF OfMaster(emitted, t) = <<>> THEN t \in Keys(monitor.previous_snapshot)
       ELSE OfMaster(emitted, t)[1].event_type # "NEW"

\* process_event of an event of ticket t that is not NEW, with no call of
\* the terminal and the store as it was
SkipsUnmapped(t) ==
    (processed' # processed /\ received.master_ticket = t /\ received.event_type # "NEW") =>
        /\ t \notin DOMAIN mappings
        /\ calls' = <<>> /\ sent' = <<>>
        /\ outcome' = "skipped"
        /\ StoreUnchanged /\ terminal' = terminal

\* C34 as stated: a position of the first snapshot never gets a NEW event,
\* and every event of it that the slave processes finds no mapping and
\* makes no call of the terminal.
C34_FirstSnapshotNeverCopied ==
    /\ [](\A t \in Tickets : InFirstSnapshot(t) => ~HasNew(emitted, t))
    /\ [][\A t \in Tickets : InFirstSnapshot(t) => SkipsUnmapped(t)]_vars

FirstSnapshotStep ==
    /\ (polls' # polls /\ ~monitor.initialized) => outbox' = <<>>
    /\ \A t \in Tickets :
           /\ (polls' # polls /\ HasNew(outbox', t)) =>
                 (t \notin Keys(positions) /\ t \in Keys(positions'))
           /\ (InFirstSnapshot(t) /\ ~HasNew(processed, t)) => SkipsUnmapped(t)

\* C34 as the code has it: the first pass returns no event; a later pass
\* returns NEW for a ticket only when the read before it did not show the
\* ticket, so a position of the first snapshot gets no NEW event before a
\* pass has reported it CLOSED; and until a NEW event of it has been
\* processed, every other event of it that the slave processes finds no
\* mapping, makes no call of the terminal and leaves the store as it was.
C34_FirstSnapshotNotCopiedWhileOpen ==
    /\ [](\A t \in Tickets :
              (InFirstSnapshot(t) /\ ClosedOf(emitted, t) = {}) =>
                  (~HasNew(emitted, t) /\ t \notin DOMAIN mappings))
    /\ [][FirstSnapshotStep]_vars

\* ticket 1 was open when the master started; its stop loss was moved, and
\* the slave has processed the event without a mapping and without a call
C34_Witness ==
    /\ InFirstSnapshot(1)
    /\ Len(emitted) = 1 /\ emitted[1].event_type = "MODIFIED_SL"
    /\ processed = emitted
    /\ lastEvent = emitted[1]
    /\ outcome = "skipped" /\ calls = <<>>
    /\ mappings = <<>> /\ terminal = <<>>
    /\ 1 \in Keys(positions)

----------------------------------------------------------------------------
(* main and its two processes.  main waits while both processes are alive  *)
(* and the stop flag is not set, then sets the flag, joins each process    *)
(* for at most ten seconds and terminates what is still alive.  A process  *)
(* may end at any moment for a reason of its own, and may hang: nothing    *)
(* obliges it to take its next step.  After signal.signal has replaced the *)
(* handler of SIGINT, Ctrl+C sets the flag and raises no KeyboardInterrupt. *)

\* a process ends by itself: an exception outside the try of its loop, a
\* signal, a kill
Dies ==
    /\ \/ /\ is_alive(master)
          /\ master' = [master EXCEPT !.pc = "exited", !.did = "died"]
          /\ slave' = slave
       \/ /\ is_alive(slave)
          /\ slave' = [slave EXCEPT !.pc = "exited", !.did = "died"]
          /\ master' = master
    /\ UNCHANGED <<mappings, file, executorVars, monitorVars, queueVars, storeVars, stop_event, main>>

\* lines 283-289: the wait ends when a process is no longer alive or the
\* stop flag is set
MainWait ==
    /\ main.pc = "wait"
    /\ ~is_alive(master) \/ ~is_alive(slave) \/ stop_event
    /\ main' = Main("cleanup")
    /\ UNCHANGED <<mappings, file, executorVars, monitorVars, queueVars, storeVars, stop_event, master, slave>>

\* lines 292-293: stop_event.set()
MainCleanup ==
    /\ main.pc = "cleanup"
    /\ stop_event' = TRUE
    /\ main' = Main("join_master")
    /\ UNCHANGED <<mappings, file, executorVars, monitorVars, queueVars, storeVars, master, slave>>

\* line 294: p_master.join(timeout=10) returns, the process ended or not
JoinMaster ==
    /\ main.pc = "join_master"
    /\ main' = Main("join_slave")
    /\ UNCHANGED <<mappings, file, executorVars, monitorVars, queueVars, storeVars, stop_event, master, slave>>

\* line 295: p_slave.join(timeout=10) returns, the process ended or not
JoinSlave ==
    /\ main.pc = "join_slave"
    /\ main' = Main("terminate")
    /\ UNCHANGED <<mappings, file, executorVars, monitorVars, queueVars, storeVars, stop_event, master, slave>>

\* lines 297-302: what is still alive is terminated; "Shutdown complete"
MainTerminate ==
    /\ main.pc = "terminate"
    /\ master' = terminate(master)
    /\ slave' = terminate(slave)
    /\ main' = Main("done")
    /\ UNCHANGED <<mappings, file, executorVars, monitorVars, queueVars, storeVars, stop_event>>

SupervisorNext ==
    \/ MasterConnect
    \/ MasterLoop
    \/ MasterPut
    \/ SlaveConnect
    \/ SlaveLoop
    \/ SlaveExecute
    \/ SetStop
    \/ Dies
    \/ MainWait
    \/ MainCleanup
    \/ JoinMaster
    \/ JoinSlave
    \/ MainTerminate

SupervisorSpec == Init /\ [][SupervisorNext]_vars

\* main takes its next step sooner or later: a sleep and a join with a
\* timeout return.  Nothing is asked of the two processes.
SupervisorLiveSpec ==
    SupervisorSpec /\ WF_vars(MainWait \/ MainCleanup \/ JoinMaster \/ JoinSlave \/ MainTerminate)

\* C35: once one of the two processes is no longer alive, main comes to its
\* end, whatever the other process does.  From its cleanup on the stop flag
\* is set, main passes through the join of the master and then the join of
\* the slave, each of which returns, and at its end neither process is
\* alive: a process that has not ended by itself has been terminated.
C35_MainAlwaysShutsDown ==
    /\ (~is_alive(master) \/ ~is_alive(slave)) ~> (main.pc = "done")
    /\ [](main.pc \in {"join_master", "join_slave", "terminate", "done"} => stop_event)
    /\ [](main.pc = "done" => ~is_alive(master) /\ ~is_alive(slave))
    /\ [][main.pc = "done" => UNCHANGED <<master, slave, main>>]_vars

\* the master could not connect and ended; the slave, hanging in its loop,
\* did not end during its join and was terminated without its calls on the
\* way out
C35_Witness ==
    /\ main.pc = "done"
    /\ master.did = "connect_failed"
    /\ slave.did = "terminated"
    /\ slave.connected /\ slave.exit = <<>>
    /\ stop_event

====
